---- MODULE Spec2Model ----
(***************************************************************************)
(* Invoice ingestion pipeline of the Invoice-Management dashboard.         *)
(*                                                                         *)
(* Part 1 models one request to one of the three server routes             *)
(*   single  : src/app/api/process-invoice/route.ts, lines 1-234           *)
(*   batch   : src/app/api/process-invoice/route.ts, lines 235-522         *)
(*   forward : src/app/api/process-multiple-invoices/route.ts              *)
(* Every action is one run of the handler between two awaits.              *)
(*                                                                         *)
(* Part 2 models InvoiceStorageService (src/lib/invoiceStorage.ts) over a  *)
(* document store, with commits executed one at a time.                    *)
(***************************************************************************)
EXTENDS Naturals, Integers, Sequences, FiniteSets, TLC

\* ------------------------------------------------------------------ bounds
\* Largest number of files in one submitted set.
MaxFiles == 7
\* Largest number of entries the service sends beyond the batch's file count.
MaxExtra == 1
\* Largest number of commits in one behaviour of the storage model.
MaxCommits == 2
\* Largest value of the clock.
MaxClock == 2
\* Commits of a run with storage errors.
MaxFaultyCommits == 2
\* Commits before a lookup is queried.
MaxLookupCommits == 2
\* Longest enumerated vendor name.
MaxNameLen == 5

\* ------------------------------------------------------- program constants
BATCH_SIZE == 3
MAX_CONCURRENT_BATCHES == 2
maxRetries == 3
maxFileSize == 5242880

PDF == "application/pdf"
FileTypes == {PDF, "text/plain"}
FileSizes == {1024, maxFileSize, maxFileSize + 1}

\* HTTP statuses the extraction service answers with; response.ok is 200-299.
OkStatuses == {200}
NonOkStatuses == {500, 502, 504}
ResponseOk(status) == status >= 200 /\ status <= 299

\* Outcomes of one health probe: a 2xx answer, a non-2xx answer, a rejected
\* fetch, or the AbortSignal.timeout of the probe.
ProbeOutcomes == {"ok", "non2xx", "neterr", "timeout"}

\* Messages of the errors a fetch rejects with, and of the errors the read of
\* a body stream rejects with.
FetchErrorMessages == {"fetch failed", "connect timeout"}
StreamErrorMessages == {"terminated"}
NullBodyMessage == "Cannot read properties of null"
\* The message of the error an AbortSignal.timeout aborts a fetch with.
TimeoutMessage == "The operation was aborted due to timeout"

\* String.prototype.includes: w occurs in m at some position.
Includes(m, w) ==
    \E i \in 1..(Len(m) - Len(w) + 1) : SubSeq(m, i, i + Len(w) - 1) = w
\* route.ts 202: error.message.includes('fetch') || error.message.includes('network').
MessageIncludesFetchOrNetwork(m) == Includes(m, "fetch") \/ Includes(m, "network")
\* route.ts 213: error.message.includes('timeout').
MessageIncludesTimeout(m) == Includes(m, "timeout")

\* Texts that are not JSON and that a 2xx answer may carry as its body; each
\* is empty or starts with a letter and not with a whole JSON literal.  The
\* last is longer than the length up to which the runtime quotes a text
\* whole.
QuotedWhole == 20
BodyTexts == {"", "network unreachable", "fetch error", "timeout", "Bad Gateway",
              "upstream network unreachable now"}
\* The batch routes pass the message of a SyntaxError on without reading it.
BatchBodyTexts == {"fetch error"}

\* response.json() (route.ts 163, 458; process-multiple-invoices/route.ts 124)
\* of a text that is not JSON.  JSON.parse reads n, t and f as the start of
\* null, true and false; the first character that departs from the literal,
\* or else the first character of the text, is the unexpected token.
JsonLiterals == {"null", "true", "false"}
UnexpectedAt(text) ==
    IF \E lit \in JsonLiterals : Len(text) > 0 /\ SubSeq(lit, 1, 1) = SubSeq(text, 1, 1)
    THEN LET lit == CHOOSE l \in JsonLiterals : SubSeq(l, 1, 1) = SubSeq(text, 1, 1)
             off == {i \in 1..Len(lit) :
                        i > Len(text) \/ SubSeq(text, i, i) # SubSeq(lit, i, i)}
         IN  IF off = {} THEN Len(lit) + 1
             ELSE CHOOSE i \in off : \A j \in off : i <= j
    ELSE 1
\* The message of the SyntaxError in a runtime that names the position.
JsonSyntaxErrorAtPosition(text) ==
    LET p == UnexpectedAt(text)
    IN  IF p > Len(text) THEN "Unexpected end of JSON input"
        ELSE "Unexpected token " \o SubSeq(text, p, p) \o " in JSON at position "
                \o ToString(p - 1)
\* The message of the SyntaxError in a runtime that quotes the text: whole
\* when it is short, else the ten characters before and after the token.
JsonSyntaxErrorQuoted(text) ==
    LET p == UnexpectedAt(text)
        n == Len(text)
        from == IF n <= QuotedWhole \/ p - 1 < 10 THEN 1 ELSE p - 10
        to == IF n <= QuotedWhole \/ p - 1 >= n - 10 THEN n ELSE p + 9
    IN  IF p > n THEN "Unexpected end of JSON input"
        ELSE "Unexpected token '" \o SubSeq(text, p, p) \o "', "
                \o (IF from > 1 THEN "..." ELSE "")
                \o "\"" \o SubSeq(text, from, to) \o "\""
                \o (IF to < n THEN "..." ELSE "")
                \o " is not valid JSON"
\* The errors a body read rejects with: response.text() of a non-2xx answer
\* fails with the TypeError of the stream, response.json() of a 2xx answer
\* also with the SyntaxError of either runtime for one of the texts.
BodyErrors(status, texts) ==
    {[name |-> "TypeError", message |-> m] : m \in StreamErrorMessages}
    \cup {[name |-> "SyntaxError", message |-> m] :
            m \in IF ResponseOk(status)
                  THEN {JsonSyntaxErrorAtPosition(t) : t \in texts}
                       \cup {JsonSyntaxErrorQuoted(t) : t \in texts}
                  ELSE {}}

\* ------------------------------------------------------------------- state
VARIABLES
    request,        \* the inbound request: route, formOk, configured, files
    pc,             \* position of the handler: start, health, sleep, extract, waves, done
    retryCount,     \* single route: failed health probes so far
    healthResponse, \* last health response object: "none", "ok" or "bad"
    probeLog,       \* outcomes of the health probes that returned, in order
    calls,          \* the extraction calls of this request, by batch number
    settleLog,      \* batch numbers in the order their calls settled
    batchIndex,     \* batch route: 0-based index of the current wave's first batch
    results,        \* batch route: the BatchResult list collected so far
    response,       \* the route's HTTP response, NoResponse until it returns
    store,          \* the invoices collection: the set of stored records
    now,            \* the storage server's clock
    history,        \* the commits executed so far, in order
    input,          \* the string handed to the vendor-name normalizer
    output,         \* what the normalizer has returned for it so far, in order
    client,         \* the dashboard's processInvoices run
    runs            \* concurrent commits of the dashboard, by browser session

routeVars == <<request, pc, retryCount, healthResponse, probeLog, calls,
               settleLog, batchIndex, results, response>>
storeVars == <<store, now, history>>
normVars == <<input, output>>
clientVars == <<client, runs>>
nonRouteVars == <<storeVars, normVars, clientVars>>
nonStoreVars == <<routeVars, normVars, clientVars>>
vars == <<request, pc, retryCount, healthResponse, probeLog, calls,
          settleLog, batchIndex, results, response, store, now, history,
          input, output, client, runs>>

\* ----------------------------------------------------------------- helpers
Range(s) == {s[i] : i \in DOMAIN s}

RECURSIVE Flatten(_)
Flatten(ss) == IF ss = <<>> THEN <<>> ELSE Head(ss) \o Flatten(Tail(ss))

Min(a, b) == IF a < b THEN a ELSE b

File(name, type, size) == [name |-> name, type |-> type, size |-> size]

\* File lists of length n: names are 1..n; every file is a small PDF except
\* at most one.  The odd file is of the wrong type or above the cap at any
\* position, or a PDF of exactly the cap at the first or last position.
FileLists(n) ==
    LET plain == [i \in 1..n |-> File(i, PDF, 1024)]
        odd == {x \in (1..n) \X FileTypes \X FileSizes :
                    x[2] # PDF \/ x[3] > maxFileSize \/ x[1] \in {1, n}}
    IN  {plain} \cup {[plain EXCEPT ![x[1]] = File(x[1], x[2], x[3])] : x \in odd}

Requests ==
    {[route |-> "single", formOk |-> fo, configured |-> c, files |-> fs] :
        fo \in {TRUE}, c \in BOOLEAN, fs \in FileLists(0) \cup FileLists(1)}
    \cup
    {[route |-> r, formOk |-> TRUE, configured |-> c, files |-> fs] :
        r \in {"batch", "forward"}, c \in BOOLEAN,
        fs \in UNION {FileLists(n) : n \in 0..MaxFiles}}
    \cup
    {[route |-> r, formOk |-> FALSE, configured |-> TRUE, files |-> <<>>] :
        r \in {"single", "batch", "forward"}}

\* ---------------------------------------------------------------- responses
NoStats == [totalFiles |-> 0, successfulFiles |-> 0, failedFiles |-> 0,
            batchesProcessed |-> 0]
NoBody == [isObject |-> FALSE, success |-> FALSE, hasResults |-> FALSE,
           results |-> <<>>]
NoResponse == [status |-> 0, success |-> FALSE, message |-> "",
               setupRequired |-> FALSE, retryAfter |-> 0,
               data |-> <<>>, stats |-> NoStats, body |-> NoBody]

ErrorResponse(status, message) ==
    [NoResponse EXCEPT !.status = status, !.message = message]

\* route.ts 54-62, 294-302 and process-multiple-invoices/route.ts 48-58: the
\* answer of a route whose backend URL is not set carries setupRequired.
NotConfigured ==
    [ErrorResponse(500, "Backend API URL not configured") EXCEPT !.setupRequired = TRUE]

\* The validation every route runs before any network call.  The single route
\* validates the one file of field 'file', the other routes every file of
\* field 'files'; the first offending file decides the message.
\* Mutant of FirstInvalid: the size check is forgotten.
RECURSIVE FirstInvalidTypeOnly(_, _)
FirstInvalidTypeOnly(files, i) ==
    IF i > Len(files) THEN 0
    ELSE IF files[i].type # PDF THEN i
    ELSE FirstInvalidTypeOnly(files, i + 1)

RECURSIVE FirstInvalid(_, _)
FirstInvalid(files, i) ==
    IF i > Len(files) THEN 0
    ELSE IF files[i].type # PDF \/ files[i].size > maxFileSize THEN i
    ELSE FirstInvalid(files, i + 1)

ValidationError(files) ==
    LET i == FirstInvalid(files, 1)
    IN  IF files = <<>> THEN "No files provided"
        ELSE IF i = 0 THEN ""
        ELSE IF files[i].type # PDF THEN "Only PDF files are supported"
        ELSE "File exceeds 5MB limit"

\* ------------------------------------------------------- extraction calls
IdleCall == [st |-> "idle", status |-> 0, value |-> <<>>]
FetchingCall == [st |-> "fetching", status |-> 0, value |-> <<>>]
ReadingCall(status) == [st |-> "reading", status |-> status, value |-> <<>>]
SettledCall(status, value) == [st |-> "settled", status |-> status, value |-> value]

InFlight == {b \in DOMAIN calls : calls[b].st \in {"fetching", "reading"}}
Issued == {b \in DOMAIN calls : calls[b].st # "idle"}

\* What a fetch promise does: reject, be aborted by the timer, or resolve with
\* the response headers.
FetchOutcomes ==
    {[kind |-> "neterr", message |-> m, status |-> 0] : m \in FetchErrorMessages}
    \cup {[kind |-> "timeout", message |-> "AbortError", status |-> 0]}
    \cup {[kind |-> "headers", message |-> "", status |-> s] :
            s \in OkStatuses \cup NonOkStatuses}

\* The dashboard run before processInvoices is called.
IdleClient == [pc |-> "idle", files |-> <<>>, batchIndex |-> 0, results |-> <<>>,
               next |-> 0, outcomes |-> <<>>, toast |-> "none", error |-> "none",
               fetchError |-> [name |-> "", message |-> ""]]

Init ==
    /\ request \in Requests
    /\ pc = "start"
    /\ retryCount = 0
    /\ healthResponse = "none"
    /\ probeLog = <<>>
    /\ calls = <<>>
    /\ settleLog = <<>>
    /\ batchIndex = 0
    /\ results = <<>>
    /\ response = NoResponse
    /\ store = {}
    /\ now = 1
    /\ history = <<>>
    /\ input = <<>>
    /\ output = <<>>
    /\ client = IdleClient
    /\ runs = <<>>

Respond(r) == /\ response' = r
              /\ pc' = "done"

\* ============================================================ single route
\* route.ts 198-233: the outer catch maps an error to a response by its message.
SingleOuterCatch(message) ==
    IF MessageIncludesFetchOrNetwork(message)
        THEN ErrorResponse(503, "Network error. Unable to connect to the backend service.")
    ELSE IF MessageIncludesTimeout(message)
        THEN ErrorResponse(408, "Request timeout. The backend took too long to respond.")
    ELSE ErrorResponse(500, "Internal server error. Please try again later.")

\* route.ts 5-62: what the single route answers before any network call.
SinglePrecheck(req) ==
    IF ~req.formOk THEN SingleOuterCatch("Failed to parse body as FormData")
    ELSE IF req.files = <<>> THEN ErrorResponse(400, "No file provided")
    ELSE IF Head(req.files).type # PDF
        THEN ErrorResponse(400, "Only PDF files are supported")
    ELSE IF Head(req.files).size > maxFileSize
        THEN ErrorResponse(400, "File exceeds 5MB limit")
    ELSE IF ~req.configured THEN NotConfigured
    ELSE NoResponse

\* route.ts 3-76: form data, validation, configuration, then the first probe
\* of the health loop is issued.
SingleStart ==
    /\ request.route = "single" /\ pc = "start"
    /\ IF SinglePrecheck(request) # NoResponse
          THEN Respond(SinglePrecheck(request))
          ELSE /\ pc' = "health"
               /\ UNCHANGED response
    /\ UNCHANGED <<request, retryCount, healthResponse, probeLog, calls,
                   settleLog, batchIndex, results, nonRouteVars>>

\* Mutant of AttemptsRemain: an off-by-one loop bound.
AttemptsRemainOffByOne(count) == count <= maxRetries

\* route.ts 70: the loop condition, evaluated on the count after a failed probe.
AttemptsRemain(count) == count < maxRetries

\* route.ts 82, 88: a failed probe counts one attempt.
CountFailedProbe(count) == count + 1

\* Mutant of GateOpen: the check after the loop is dropped.
GateAlwaysOpen(hr) == TRUE

\* route.ts 95: the gate after the loop.
GateOpen(hr) == hr = "ok"

\* route.ts 73-127: a health probe returns.  A 2xx answer leaves the loop and,
\* the gate being open, the extraction POST is issued with its 10 minute
\* abort timer.  A failed probe counts one attempt; the loop sleeps when
\* attempts remain and otherwise ends with the 503 answer.
SingleHealthReturn(o) ==
    /\ request.route = "single" /\ pc = "health"
    /\ probeLog' = Append(probeLog, o)
    /\ healthResponse' = IF o = "ok" THEN "ok"
                         ELSE IF o = "non2xx" THEN "bad" ELSE healthResponse
    /\ retryCount' = IF o = "ok" THEN retryCount ELSE CountFailedProbe(retryCount)
    /\ IF o # "ok" /\ AttemptsRemain(retryCount')
          THEN /\ pc' = "sleep"
               /\ UNCHANGED <<calls, response>>
          ELSE IF GateOpen(healthResponse')
          THEN /\ calls' = <<FetchingCall>>
               /\ pc' = "extract"
               /\ UNCHANGED response
          ELSE /\ Respond([ErrorResponse(503,
                    "Backend service is not accessible after multiple attempts.")
                        EXCEPT !.retryAfter = 30])
               /\ UNCHANGED calls
    /\ UNCHANGED <<request, settleLog, batchIndex, results, nonRouteVars>>

\* route.ts 84, 90, 70-76: the fixed 5 s delay elapses and the loop issues the
\* next probe.
SingleSleepDone ==
    /\ request.route = "single" /\ pc = "sleep"
    /\ AttemptsRemain(retryCount)
    /\ pc' = "health"
    /\ UNCHANGED <<request, retryCount, healthResponse, probeLog, calls,
                   settleLog, batchIndex, results, response, nonRouteVars>>

\* route.ts 131-161: answers of the single route to a non-2xx extraction answer.
SingleStatusResponse(status) ==
    IF status = 502
        THEN ErrorResponse(502, "Backend service temporarily unavailable. Please try again later.")
    ELSE IF status = 504
        THEN ErrorResponse(504, "Request timeout. The backend took too long to process the file.")
    ELSE ErrorResponse(status, "Backend API error")

\* route.ts 119-129, 181-196: the extraction fetch settles.  The abort timer
\* gives 408, a rejected fetch goes to the outer catch, response headers clear
\* the timer and start the body read.
SingleFetchReturn(o) ==
    /\ request.route = "single" /\ pc = "extract"
    /\ calls[1].st = "fetching"
    /\ IF o.kind = "headers"
          THEN /\ calls' = <<ReadingCall(o.status)>>
               /\ UNCHANGED <<pc, response, settleLog>>
          ELSE /\ calls' = <<SettledCall(0, <<>>)>>
               /\ settleLog' = Append(settleLog, 1)
               /\ Respond(IF o.kind = "timeout"
                          THEN ErrorResponse(408,
                                "Request timeout. The backend took too long to process the file.")
                          ELSE SingleOuterCatch(o.message))
    /\ UNCHANGED <<request, retryCount, healthResponse, probeLog,
                   batchIndex, results, nonRouteVars>>

\* Bodies the single extraction endpoint sends: unreadable, not an object,
\* or an object with a success flag.
SingleBodies(status) ==
    {[kind |-> "error", name |-> e.name, message |-> e.message, json |-> NoBody] :
        e \in BodyErrors(status, BodyTexts)}
    \cup {[kind |-> "json", name |-> "", message |-> "", json |-> NoBody]}
    \cup {[kind |-> "json", name |-> "", message |-> "",
           json |-> [NoBody EXCEPT !.isObject = TRUE, !.success = s]] : s \in BOOLEAN}

\* route.ts 131-179: the body read of the single extraction call settles.
SingleBodyResponse(status, b) ==
    IF b.kind = "error" THEN SingleOuterCatch(b.message)
    ELSE IF ~ResponseOk(status) THEN SingleStatusResponse(status)
    ELSE IF ~b.json.isObject
        THEN SingleOuterCatch(NullBodyMessage)
    ELSE IF ~b.json.success THEN ErrorResponse(400, "Backend processing failed")
    ELSE [NoResponse EXCEPT !.status = 200, !.success = TRUE,
                            !.message = "Invoice processed successfully",
                            !.body = b.json]

SingleBodyReturn(b) ==
    /\ request.route = "single" /\ pc = "extract"
    /\ calls[1].st = "reading"
    /\ calls' = <<SettledCall(calls[1].status, <<>>)>>
    /\ settleLog' = Append(settleLog, 1)
    /\ Respond(SingleBodyResponse(calls[1].status, b))
    /\ UNCHANGED <<request, retryCount, healthResponse, probeLog,
                   batchIndex, results, nonRouteVars>>

SingleNext ==
    \/ SingleStart
    \/ \E o \in ProbeOutcomes : SingleHealthReturn(o)
    \/ SingleSleepDone
    \/ \E o \in FetchOutcomes : SingleFetchReturn(o)
    \/ \E b \in SingleBodies(IF calls # <<>> THEN calls[1].status ELSE 0) :
          SingleBodyReturn(b)

\* ============================================================= batch route
\* route.ts 252-302 and process-multiple-invoices/route.ts 8-58: what the
\* multi-file routes answer before any network call.
MultiPrecheck(req, internalMessage) ==
    IF ~req.formOk THEN ErrorResponse(500, internalMessage)
    ELSE IF ValidationError(req.files) # ""
        THEN ErrorResponse(400, ValidationError(req.files))
    ELSE IF ~req.configured THEN NotConfigured
    ELSE NoResponse

\* route.ts 340-342: the number of batches and the files of batch k (1-based).
NumBatches(files) == (Len(files) + BATCH_SIZE - 1) \div BATCH_SIZE
Batch(files, k) ==
    SubSeq(files, (k - 1) * BATCH_SIZE + 1, Min(k * BATCH_SIZE, Len(files)))

\* Mutant of WaveOf: the wave is BATCH_SIZE wide instead of MAX_CONCURRENT_BATCHES.
WaveOfBatchSize(bi, n) == {b \in 1..n : b > bi /\ b <= bi + BATCH_SIZE}

\* route.ts 348: the batch numbers of the wave that starts at 0-based index bi.
WaveOf(bi, n) == {b \in 1..n : b > bi /\ b <= bi + MAX_CONCURRENT_BATCHES}

\* Mutant of Dispatch: a settled batch that reported a failure is submitted
\* again with the next wave.
DispatchWithRetry(cs, wave) ==
    [b \in DOMAIN cs |->
        IF b \in wave THEN FetchingCall
        ELSE IF cs[b].st = "settled"
                /\ \E i \in DOMAIN cs[b].value : ~cs[b].value[i].success
        THEN FetchingCall
        ELSE cs[b]]

\* route.ts 351-353: every batch of the wave runs processBatch up to its fetch.
Dispatch(cs, wave) ==
    [b \in DOMAIN cs |-> IF b \in wave THEN FetchingCall ELSE cs[b]]

\* A BatchResult.  filename 0 stands for 'unknown'; batch is bookkeeping: the
\* number of the batch whose processBatch call produced the entry.
BatchResult(filename, success, error, b) ==
    [filename |-> filename, success |-> success, error |-> error, batch |-> b]

\* route.ts 447-454, 475-482, 489-505, 511-518: one failure per file of the batch.
FailAll(files, b, error) ==
    [i \in 1..Len(files) |-> BatchResult(files[i].name, FALSE, error, b)]

\* An entry of the service's results array: null, or an object whose filename
\* may be missing.
NullEntry == [isNull |-> TRUE, hasName |-> FALSE, filename |-> 0,
              success |-> FALSE, error |-> ""]
Entry(name, success) ==
    [isNull |-> FALSE, hasName |-> name # 0, filename |-> name,
     success |-> success, error |-> IF success THEN "" ELSE "extraction failed"]

\* Results arrays the service may send for a batch of n files, entry i named
\* after file i of the batch and unnamed beyond the batch:
\*   - one entry per file, the first j successful and the others failed;
\*   - too few entries (none, or all but the last), all successful;
\*   - up to MaxExtra entries too many, all successful;
\*   - one entry per file with the last entry null.
ResultLists(files) ==
    LET n == Len(files)
        list(k, j) == [i \in 1..k |->
                         Entry(IF i <= n THEN files[i].name ELSE 0, i <= j)]
    IN  {list(n, j) : j \in 0..n}
        \cup {list(0, 0), list(n - 1, n - 1)}
        \cup {list(k, k) : k \in (n + 1)..(n + MaxExtra)}
        \cup {[list(n, n) EXCEPT ![n] = NullEntry]}

\* route.ts 463-471: results.forEach pushes one BatchResult per entry and throws
\* a TypeError at a null entry, keeping what it pushed before.
RECURSIVE MapResults(_, _)
MapResults(entries, b) ==
    IF entries = <<>> THEN [pushed |-> <<>>, threw |-> FALSE]
    ELSE IF Head(entries).isNull THEN [pushed |-> <<>>, threw |-> TRUE]
    ELSE LET e == Head(entries)
             rest == MapResults(Tail(entries), b)
         IN  [pushed |-> <<BatchResult(IF e.hasName THEN e.filename ELSE 0,
                                       e.success, e.error, b)>> \o rest.pushed,
              threw |-> rest.threw]

HttpError(status) == "HTTP " \o ToString(status)

\* Bodies the batch endpoint sends after its headers: an unreadable body, a
\* text body of a non-2xx answer, or JSON of a 2xx answer.
BatchBodies(files, status) ==
    {[kind |-> "error", name |-> e.name, message |-> e.message, json |-> NoBody] :
        e \in BodyErrors(status, BatchBodyTexts)}
    \cup
    IF ~ResponseOk(status)
    THEN {[kind |-> "text", name |-> "", message |-> "", json |-> NoBody]}
    ELSE {[kind |-> "json", name |-> "", message |-> "", json |-> NoBody]}
         \cup {[kind |-> "json", name |-> "", message |-> "",
                json |-> [NoBody EXCEPT !.isObject = TRUE, !.success = s]] :
                    s \in BOOLEAN}
         \cup {[kind |-> "json", name |-> "", message |-> "",
                json |-> [isObject |-> TRUE, success |-> TRUE,
                          hasResults |-> TRUE, results |-> r]] :
                    r \in ResultLists(files)}

\* route.ts 485-507: processBatch's value when its fetch rejects or is aborted.
ProcessBatchFetchError(files, b, o) ==
    IF o.kind = "timeout" THEN FailAll(files, b, "Request timeout")
    ELSE FailAll(files, b, o.message)

\* route.ts 443-483, 485-507: processBatch's value once the body read settles.
ProcessBatchBody(files, b, status, body) ==
    IF body.kind = "error" THEN FailAll(files, b, body.message)
    ELSE IF ~ResponseOk(status) THEN FailAll(files, b, HttpError(status))
    ELSE IF ~body.json.isObject THEN FailAll(files, b, NullBodyMessage)
    ELSE IF body.json.success /\ body.json.hasResults
        THEN LET m == MapResults(body.json.results, b)
             IN  IF m.threw
                 THEN m.pushed \o FailAll(files, b, NullBodyMessage)
                 ELSE m.pushed
    ELSE FailAll(files, b, "Unexpected response format from backend")

\* Mutant of WaveSettled: the wave ends when its first batch settles (a race).
WaveSettledAny(cs, wave) == \E b \in wave : cs[b].st = "settled"

\* route.ts 356: Promise.allSettled resolves when every batch of the wave settled.
WaveSettled(cs, wave) == \A b \in wave : cs[b].st = "settled"

\* Mutant of CollectWave: collection stops after the first batch that
\* reports a failure, as when a failed batch rejects the whole wave.
RECURSIVE CollectWaveStopAtFailure(_, _, _)
CollectWaveStopAtFailure(cs, bi, index) ==
    IF bi + index + 1 \notin {b \in 1..Len(cs) : b > bi /\ b <= bi + MAX_CONCURRENT_BATCHES}
        THEN <<>>
    ELSE IF \E i \in DOMAIN cs[bi + index + 1].value :
                ~cs[bi + index + 1].value[i].success
        THEN cs[bi + index + 1].value
    ELSE cs[bi + index + 1].value \o CollectWaveStopAtFailure(cs, bi, index + 1)

\* Mutant of CollectWave: the wave's values are collected last batch first.
RECURSIVE CollectWaveReversed(_, _, _)
CollectWaveReversed(cs, bi, index) ==
    IF bi + index + 1 \notin {b \in 1..Len(cs) : b > bi /\ b <= bi + MAX_CONCURRENT_BATCHES}
        THEN <<>>
    ELSE CollectWaveReversed(cs, bi, index + 1) \o cs[bi + index + 1].value

\* route.ts 359-373: the values of the wave's batches, in batch order.
\* processBatch catches every error, so each promise is fulfilled.
RECURSIVE CollectWave(_, _, _)
CollectWave(cs, bi, index) ==
    IF bi + index + 1 \notin WaveOf(bi, Len(cs)) THEN <<>>
    ELSE cs[bi + index + 1].value \o CollectWave(cs, bi, index + 1)

\* route.ts 347: the loop condition after batchIndex advanced.
MoreWaves(bi, n) == bi < n

CountWhere(rs, flag) == Cardinality({i \in DOMAIN rs : rs[i].success = flag})

\* route.ts 376-398: statistics and the 200 report.  The processing times are
\* left out of the model.
BatchReport(rs, files) ==
    [NoResponse EXCEPT
        !.status = 200, !.success = TRUE,
        !.message = "Batch processing completed.",
        !.data = rs,
        !.stats = [totalFiles |-> Len(files),
                   successfulFiles |-> CountWhere(rs, TRUE),
                   failedFiles |-> CountWhere(rs, FALSE),
                   batchesProcessed |-> NumBatches(files)]]

\* route.ts 252-310: form data, validation, configuration, then the health
\* probe is issued.
BatchStart ==
    /\ request.route = "batch" /\ pc = "start"
    /\ LET r == MultiPrecheck(request, "Internal server error during batch processing.")
       IN  IF r # NoResponse
           THEN Respond(r)
           ELSE /\ pc' = "health"
                /\ UNCHANGED response
    /\ UNCHANGED <<request, retryCount, healthResponse, probeLog, calls,
                   settleLog, batchIndex, results, nonRouteVars>>

\* route.ts 306-357: the health probe returns.  Anything but a 2xx answer ends
\* the request with 503; otherwise the batches are built and the first wave is
\* dispatched.
BatchHealthReturn(o) ==
    /\ request.route = "batch" /\ pc = "health"
    /\ probeLog' = Append(probeLog, o)
    /\ healthResponse' = IF o = "ok" THEN "ok"
                         ELSE IF o = "non2xx" THEN "bad" ELSE healthResponse
    /\ IF o = "ok"
          THEN /\ calls' = Dispatch([b \in 1..NumBatches(request.files) |-> IdleCall],
                                    WaveOf(0, NumBatches(request.files)))
               /\ pc' = "waves"
               /\ UNCHANGED response
          ELSE /\ Respond(ErrorResponse(503,
                    IF o = "non2xx" THEN "Backend service is not responding properly."
                    ELSE "Backend service is not accessible."))
               /\ UNCHANGED calls
    /\ UNCHANGED <<request, retryCount, settleLog, batchIndex, results, nonRouteVars>>

\* route.ts 431-441, 485-507: the fetch of batch b settles.  Headers clear the
\* abort timer and start the body read; a rejection or the timer's abort
\* settles processBatch with one failure per file.
BatchFetchReturn(b, o) ==
    /\ request.route = "batch" /\ pc = "waves"
    /\ b \in DOMAIN calls /\ calls[b].st = "fetching"
    /\ IF o.kind = "headers"
          THEN /\ calls' = [calls EXCEPT ![b] = ReadingCall(o.status)]
               /\ UNCHANGED settleLog
          ELSE /\ calls' = [calls EXCEPT ![b] = SettledCall(0,
                                ProcessBatchFetchError(Batch(request.files, b), b, o))]
               /\ settleLog' = Append(settleLog, b)
    /\ UNCHANGED <<request, pc, retryCount, healthResponse, probeLog,
                   batchIndex, results, response, nonRouteVars>>

\* route.ts 443-483: the body read of batch b settles and processBatch returns.
BatchBodyReturn(b, body) ==
    /\ request.route = "batch" /\ pc = "waves"
    /\ b \in DOMAIN calls /\ calls[b].st = "reading"
    /\ calls' = [calls EXCEPT ![b] = SettledCall(calls[b].status,
                    ProcessBatchBody(Batch(request.files, b), b, calls[b].status, body))]
    /\ settleLog' = Append(settleLog, b)
    /\ UNCHANGED <<request, pc, retryCount, healthResponse, probeLog,
                   batchIndex, results, response, nonRouteVars>>

\* route.ts 356-398: allSettled resolves; the wave's values are collected, and
\* either the next wave is dispatched or the report is returned.
WaveSettle ==
    /\ request.route = "batch" /\ pc = "waves"
    /\ WaveSettled(calls, WaveOf(batchIndex, Len(calls)))
    /\ results' = results \o CollectWave(calls, batchIndex, 0)
    /\ batchIndex' = batchIndex + MAX_CONCURRENT_BATCHES
    /\ IF MoreWaves(batchIndex', Len(calls))
          THEN /\ calls' = Dispatch(calls, WaveOf(batchIndex', Len(calls)))
               /\ UNCHANGED <<pc, response>>
          ELSE /\ Respond(BatchReport(results', request.files))
               /\ UNCHANGED calls
    /\ UNCHANGED <<request, retryCount, healthResponse, probeLog, settleLog,
                   nonRouteVars>>

BatchNext ==
    \/ BatchStart
    \/ \E o \in ProbeOutcomes : BatchHealthReturn(o)
    \/ \E b \in 1..NumBatches(request.files), o \in FetchOutcomes : BatchFetchReturn(b, o)
    \/ \E b \in 1..NumBatches(request.files) :
         \E body \in BatchBodies(Batch(request.files, b),
                                 IF b \in DOMAIN calls THEN calls[b].status ELSE 0) :
            BatchBodyReturn(b, body)
    \/ WaveSettle

\* =========================================================== forward route
\* process-multiple-invoices/route.ts 133-159: the catch of the forwarding route.
ForwardCatch(name, message) ==
    ErrorResponse(500, IF name = "TypeError" /\ Includes(message, "fetch")
                       THEN "Network error - unable to connect to backend service"
                       ELSE message)

\* process-multiple-invoices/route.ts 8-65: form data, validation,
\* configuration, then the health probe is issued.
ForwardStart ==
    /\ request.route = "forward" /\ pc = "start"
    /\ LET r == MultiPrecheck(request, "Failed to parse body as FormData")
       IN  IF r # NoResponse
           THEN Respond(r)
           ELSE /\ pc' = "health"
                /\ UNCHANGED response
    /\ UNCHANGED <<request, retryCount, healthResponse, probeLog, calls,
                   settleLog, batchIndex, results, nonRouteVars>>

\* process-multiple-invoices/route.ts 61-107: the health probe returns; a 2xx
\* answer lets the one extraction POST with all files be issued, any other
\* outcome is answered with 503 and retryAfter: 30.
ForwardHealthReturn(o) ==
    /\ request.route = "forward" /\ pc = "health"
    /\ probeLog' = Append(probeLog, o)
    /\ healthResponse' = IF o = "ok" THEN "ok"
                         ELSE IF o = "non2xx" THEN "bad" ELSE healthResponse
    /\ IF o = "ok"
          THEN /\ calls' = <<FetchingCall>>
               /\ pc' = "extract"
               /\ UNCHANGED response
          ELSE /\ Respond([ErrorResponse(503,
                    IF o = "non2xx" THEN "Backend service is not responding properly."
                    ELSE "Backend service is not accessible.")
                        EXCEPT !.retryAfter = 30])
               /\ UNCHANGED calls
    /\ UNCHANGED <<request, retryCount, settleLog, batchIndex, results, nonRouteVars>>

\* process-multiple-invoices/route.ts 103-107, 133-159: the extraction fetch
\* settles: headers start the body read, anything else goes to the catch.
ForwardFetchReturn(o) ==
    /\ request.route = "forward" /\ pc = "extract"
    /\ calls[1].st = "fetching"
    /\ IF o.kind = "headers"
          THEN /\ calls' = <<ReadingCall(o.status)>>
               /\ UNCHANGED <<pc, response, settleLog>>
          ELSE /\ calls' = <<SettledCall(0, <<>>)>>
               /\ settleLog' = Append(settleLog, 1)
               /\ IF o.kind = "timeout"
                  THEN Respond(ForwardCatch("TimeoutError", TimeoutMessage))
                  ELSE Respond(ForwardCatch("TypeError", o.message))
    /\ UNCHANGED <<request, retryCount, healthResponse, probeLog,
                   batchIndex, results, nonRouteVars>>

\* process-multiple-invoices/route.ts 111-131: the body read settles.  A non-2xx
\* answer is passed on with its status, a 2xx JSON body is passed on whole.
ForwardBodyResponse(status, body) ==
    IF body.kind = "error" THEN ForwardCatch(body.name, body.message)
    ELSE IF ~ResponseOk(status)
        THEN ErrorResponse(status, "Backend API error: " \o ToString(status))
    ELSE [NoResponse EXCEPT !.status = 200, !.success = TRUE,
                            !.message = "Batch processing completed successfully",
                            !.body = body.json]

\* The 60 s AbortSignal.timeout stays armed during the body read.
ForwardBodies(files, status) ==
    BatchBodies(files, status)
    \cup {[kind |-> "error", name |-> "TimeoutError", message |-> TimeoutMessage,
           json |-> NoBody]}

ForwardBodyReturn(body) ==
    /\ request.route = "forward" /\ pc = "extract"
    /\ calls[1].st = "reading"
    /\ calls' = <<SettledCall(calls[1].status, <<>>)>>
    /\ settleLog' = Append(settleLog, 1)
    /\ Respond(ForwardBodyResponse(calls[1].status, body))
    /\ UNCHANGED <<request, retryCount, healthResponse, probeLog,
                   batchIndex, results, nonRouteVars>>

ForwardNext ==
    \/ ForwardStart
    \/ \E o \in ProbeOutcomes : ForwardHealthReturn(o)
    \/ \E o \in FetchOutcomes : ForwardFetchReturn(o)
    \/ \E body \in ForwardBodies(request.files,
                                 IF calls # <<>> THEN calls[1].status ELSE 0) :
         ForwardBodyReturn(body)

Next == SingleNext \/ BatchNext \/ ForwardNext

Spec == Init /\ [][Next]_vars

\* The single route alone, with the scheduling the health loop relies on:
\* every probe settles (it carries a 30 s AbortSignal.timeout) and the 5 s
\* sleep timer fires.
SingleInit == Init /\ request.route = "single"
SingleSpec ==
    /\ SingleInit
    /\ [][SingleNext]_vars
    /\ WF_vars(\E o \in ProbeOutcomes : SingleHealthReturn(o))
    /\ WF_vars(SingleSleepDone)

\* ================================================================= storage
\* Strings of the storage model are sequences of one-character strings, so
\* that trim(), toLowerCase() and the filename sanitizer are computed.
Undefined == <<"undefined">>
IsDefined(x) == x # Undefined
\* Characters beyond ASCII are named: TAB, NBSP (U+00A0), ZWSP (U+200B), fwA
\* and fwa (U+FF21 and U+FF41, fullwidth A and a) and ellipsis (U+2026).
Whitespace == {" ", "TAB", "NBSP"}
UpperLetters ==
    <<"A", "B", "C", "D", "E", "F", "G", "H", "I", "J", "K", "L", "M", "N",
      "O", "P", "Q", "R", "S", "T", "U", "V", "W", "X", "Y", "Z">>
LowerLetters ==
    <<"a", "b", "c", "d", "e", "f", "g", "h", "i", "j", "k", "l", "m", "n",
      "o", "p", "q", "r", "s", "t", "u", "v", "w", "x", "y", "z">>
Digits == {"0", "1", "2", "3", "4", "5", "6", "7", "8", "9"}
UpperCase == {UpperLetters[i] : i \in DOMAIN UpperLetters}
LowerCase == {LowerLetters[i] : i \in DOMAIN LowerLetters}
LowerAlnum == LowerCase \cup Digits
LowerOf == [c \in UpperCase |-> LowerLetters[CHOOSE i \in DOMAIN UpperLetters : UpperLetters[i] = c]]
UpperOf == [c \in LowerCase |-> UpperLetters[CHOOSE i \in DOMAIN LowerLetters : LowerLetters[i] = c]]

ToLowerChar(c) ==
    IF c \in UpperCase THEN LowerOf[c] ELSE IF c = "fwA" THEN "fwa" ELSE c
ToUpperChar(c) ==
    IF c \in LowerCase THEN UpperOf[c] ELSE IF c = "fwa" THEN "fwA" ELSE c

\* String.prototype.toLowerCase
ToLowerCase(str) == [i \in DOMAIN str |-> ToLowerChar(str[i])]

\* String.prototype.trim
RECURSIVE TrimStart(_)
TrimStart(str) ==
    IF str # <<>> /\ Head(str) \in Whitespace THEN TrimStart(Tail(str)) ELSE str
RECURSIVE TrimEnd(_)
TrimEnd(str) ==
    IF str # <<>> /\ str[Len(str)] \in Whitespace
        THEN TrimEnd(SubSeq(str, 1, Len(str) - 1)) ELSE str
Trim(str) == TrimEnd(TrimStart(str))

\* ------------------------------------------------------- vendor normalizer
\* dataUtils.ts 28: String.prototype.normalize('NFKC') on one character.
NFKCChar(c) ==
    CASE c = "fwA" -> <<"A">>
      [] c = "fwa" -> <<"a">>
      [] c = "NBSP" -> <<" ">>
      [] c = "ellipsis" -> <<".", ".", ".">>
      [] OTHER -> <<c>>
RECURSIVE NFKC(_)
NFKC(str) == IF str = <<>> THEN <<>> ELSE NFKCChar(Head(str)) \o NFKC(Tail(str))

\* dataUtils.ts 29: replace(/[\u200B-\u200D\uFEFF]/g, '')
ZeroWidth == {"ZWSP"}
RemoveZeroWidth(str) == SelectSeq(str, LAMBDA c : c \notin ZeroWidth)

\* dataUtils.ts 30: replace(/\./g, '')
RemovePeriods(str) == SelectSeq(str, LAMBDA c : c # ".")

\* dataUtils.ts 31: replace(/\s+/g, ' ')
RECURSIVE CollapseWhitespace(_)
CollapseWhitespace(str) ==
    IF str = <<>> THEN <<>>
    ELSE IF Head(str) \in Whitespace
        THEN IF Len(str) > 1 /\ str[2] \in Whitespace
                THEN CollapseWhitespace(Tail(str))
                ELSE <<" ">> \o CollapseWhitespace(Tail(str))
    ELSE <<Head(str)>> \o CollapseWhitespace(Tail(str))

\* dataUtils.ts 32: replace(/[^a-zA-Z0-9& -]/g, '')
BasicChars == UpperCase \cup LowerCase \cup Digits \cup {"&", " ", "-"}
KeepBasicChars(str) == SelectSeq(str, LAMBDA c : c \in BasicChars)

\* dataUtils.ts 35: replace(/\b\w/g, c => c.toUpperCase())
WordChars == UpperCase \cup LowerCase \cup Digits \cup {"_"}
CapitalizeWords(str) ==
    [i \in DOMAIN str |->
        IF str[i] \in WordChars /\ (i = 1 \/ str[i - 1] \notin WordChars)
            THEN ToUpperChar(str[i]) ELSE str[i]]

\* dataUtils.ts 23-36
StandardizeVendorName(vendorName) ==
    IF ~IsDefined(vendorName) \/ vendorName = <<>> THEN <<>>
    ELSE CapitalizeWords(ToLowerCase(Trim(KeepBasicChars(CollapseWhitespace(
            RemovePeriods(RemoveZeroWidth(NFKC(vendorName))))))))

\* dashboard/page.tsx 563-573: the override table, in insertion order.
normalizationRules ==
    <<
       <<<<"T", "r", "a", "s", "h", " ", "T", "a", "x", "i", " ", "O", "f", " ", "G", "a", "l", "l", "c">>,
         <<"T", "r", "a", "s", "h", " ", "T", "a", "x", "i", " ", "O", "f", " ", "G", "a", " ", "L", "l", "c">>>>,
       <<<<"T", "r", "a", "s", "h", " ", "T", "a", "x", "i", " ", "O", "f", " ", "G", "A", " ", "L", "L", "C">>,
         <<"T", "r", "a", "s", "h", " ", "T", "a", "x", "i", " ", "O", "f", " ", "G", "a", " ", "L", "l", "c">>>>,
       <<<<"T", "r", "a", "s", "h", " ", "T", "a", "x", "i", " ", "O", "f", " ", "G", "A", " ", "L", "l", "c">>,
         <<"T", "r", "a", "s", "h", " ", "T", "a", "x", "i", " ", "O", "f", " ", "G", "a", " ", "L", "l", "c">>>>,
       <<<<"W", "M", " ", "C", "o", "r", "p", "o", "r", "a", "t", "e", " ", "S", "e", "r", "v", "i", "c", "e", "s", " ", "I", "n", "c">>,
         <<"W", "m", " ", "C", "o", "r", "p", "o", "r", "a", "t", "e", " ", "S", "e", "r", "v", "i", "c", "e", "s", " ", "I", "n", "c">>>>,
       <<<<"W", "M", " ", "C", "O", "R", "P", "O", "R", "A", "T", "E", " ", "S", "E", "R", "V", "I", "C", "E", "S", " ", "I", "N", "C">>,
         <<"W", "m", " ", "C", "o", "r", "p", "o", "r", "a", "t", "e", " ", "S", "e", "r", "v", "i", "c", "e", "s", " ", "I", "n", "c">>>>,
       <<<<"G", "e", "o", "r", "g", "i", "a", " ", "W", "a", "s", "t", "e", " ", "S", "y", "s", "t", "e", "m", "s", " ", "L", "L", "C">>,
         <<"G", "e", "o", "r", "g", "i", "a", " ", "W", "a", "s", "t", "e", " ", "S", "y", "s", "t", "e", "m", "s", " ", "L", "l", "c">>>>,
       <<<<"G", "E", "O", "R", "G", "I", "A", " ", "W", "A", "S", "T", "E", " ", "S", "Y", "S", "T", "E", "M", "S", " ", "L", "L", "C">>,
         <<"G", "e", "o", "r", "g", "i", "a", " ", "W", "a", "s", "t", "e", " ", "S", "y", "s", "t", "e", "m", "s", " ", "L", "l", "c">>>>,
       <<<<"V", "a", "l", "l", "e", "y", " ", "P", "a", "l", "l", "e", "t", " ", "A", "n", "d", " ", "C", "r", "a", "t", "i", "n", "g", " ", "L", "L", "C">>,
         <<"V", "a", "l", "l", "e", "y", " ", "P", "a", "l", "l", "e", "t", " ", "A", "n", "d", " ", "C", "r", "a", "t", "i", "n", "g", " ", "L", "l", "c">>>>,
       <<<<"V", "A", "L", "L", "E", "Y", " ", "P", "A", "L", "L", "E", "T", " ", "A", "N", "D", " ", "C", "R", "A", "T", "I", "N", "G", " ", "L", "L", "C">>,
         <<"V", "a", "l", "l", "e", "y", " ", "P", "a", "l", "l", "e", "t", " ", "A", "n", "d", " ", "C", "r", "a", "t", "i", "n", "g", " ", "L", "l", "c">>>>
    >>

\* Mutant of ApplyRules: the override pass is left out.
ApplyRulesSkipped(normalized, k) == normalized

\* dashboard/page.tsx 576-581: the first rule whose variant equals the value
\* replaces it and ends the loop.
RECURSIVE ApplyRules(_, _)
ApplyRules(normalized, k) ==
    IF k > Len(normalizationRules) THEN normalized
    ELSE IF normalized = normalizationRules[k][1] THEN normalizationRules[k][2]
    ELSE ApplyRules(normalized, k + 1)

Unknown == <<"U", "n", "k", "n", "o", "w", "n">>

\* dashboard/page.tsx 556-584
EnhancedVendorNormalization(name) ==
    IF ~IsDefined(name) \/ Trim(name) = <<>> THEN Unknown
    ELSE ApplyRules(StandardizeVendorName(Trim(name)), 1)

\* invoiceStorage.ts 70, 181: filename.toLowerCase().replace(/[^a-z0-9]/g, '_')
CleanFilename(filename) ==
    [i \in DOMAIN filename |->
        IF ToLowerChar(filename[i]) \in LowerAlnum THEN ToLowerChar(filename[i]) ELSE "_"]

\* invoiceStorage.ts 180-184: `${userId}_${cleanFilename}_${timestamp}`
GenerateDocumentId(userId, filename, timestamp) ==
    <<userId, CleanFilename(filename), timestamp>>

\* invoiceStorage.ts 126: invoiceNumber && invoiceNumber.trim()
NonBlank(invoiceNumber) == IsDefined(invoiceNumber) /\ Trim(invoiceNumber) # <<>>

\* invoiceStorage.ts 130-140: the exact query on (userId, invoiceNumber).
ExactMatches(st, userId, invoiceNumber) ==
    {r \in st : r.userId = userId /\ r.invoiceNumber = Trim(invoiceNumber)}

\* Mutant of ScanMatches: the scan compares trimmed numbers without folding case.
ScanMatchesNoFold(st, userId, invoiceNumber) ==
    {r \in st : /\ r.userId = userId
                /\ IsDefined(r.invoiceNumber) /\ r.invoiceNumber # <<>>
                /\ Trim(r.invoiceNumber) = Trim(invoiceNumber)}

\* invoiceStorage.ts 143-155: the scan of the owner's records.
ScanMatches(st, userId, invoiceNumber) ==
    {r \in st : /\ r.userId = userId
                /\ IsDefined(r.invoiceNumber) /\ r.invoiceNumber # <<>>
                /\ Trim(ToLowerCase(r.invoiceNumber)) = Trim(ToLowerCase(invoiceNumber))}

\* Mutant of FilenameMatches: the filename query has no owner filter.
FilenameMatchesAnyOwner(st, userId, filename) ==
    {r \in st : r.originalFilename = filename}

\* invoiceStorage.ts 159-169: the query on (userId, originalFilename).
FilenameMatches(st, userId, filename) ==
    {r \in st : r.userId = userId /\ r.originalFilename = filename}

\* Mutant of FindExistingInvoice: the filename is consulted first.
FindExistingInvoiceFilenameFirst(st, userId, filename, invoiceNumber) ==
    IF FilenameMatches(st, userId, filename) # {}
        THEN FilenameMatches(st, userId, filename)
    ELSE IF NonBlank(invoiceNumber) /\ ExactMatches(st, userId, invoiceNumber) # {}
        THEN ExactMatches(st, userId, invoiceNumber)
    ELSE IF NonBlank(invoiceNumber)
        THEN ScanMatches(st, userId, invoiceNumber)
    ELSE {}

\* Mutant of FindExistingInvoice: the filename is consulted only when no
\* number was supplied, not when the number steps miss.
FindExistingInvoiceNoFallback(st, userId, filename, invoiceNumber) ==
    IF NonBlank(invoiceNumber) /\ ExactMatches(st, userId, invoiceNumber) # {}
        THEN ExactMatches(st, userId, invoiceNumber)
    ELSE IF NonBlank(invoiceNumber)
        THEN ScanMatches(st, userId, invoiceNumber)
    ELSE FilenameMatches(st, userId, filename)

\* invoiceStorage.ts 113-175: the records findExistingInvoice may return; the
\* empty set stands for null.  A query with limit(1) and the scan return the
\* first match in the store's order, which the model leaves open.
FindExistingInvoice(st, userId, filename, invoiceNumber) ==
    IF NonBlank(invoiceNumber) /\ ExactMatches(st, userId, invoiceNumber) # {}
        THEN ExactMatches(st, userId, invoiceNumber)
    ELSE IF NonBlank(invoiceNumber) /\ ScanMatches(st, userId, invoiceNumber) # {}
        THEN ScanMatches(st, userId, invoiceNumber)
    ELSE FilenameMatches(st, userId, filename)

\* The results of one call: null (the empty set) or one of the candidates.
Results(candidates) ==
    IF candidates = {} THEN {{}} ELSE {{r} : r \in candidates}
The(found) == CHOOSE r \in found : TRUE

\* Mutant of CreatedAt: the creation time is rewritten by every commit.
CreatedAtAlwaysNow(found, t) == t

\* invoiceStorage.ts 80: existingInvoice?.createdAt || serverTimestamp()
CreatedAt(found, t) == IF found = {} THEN t ELSE The(found).createdAt

\* invoiceStorage.ts 56, 409: standardizeVendorName(company_name) || 'Unknown'
VendorName(extractedData) ==
    IF StandardizeVendorName(extractedData.company_name) = <<>> THEN Unknown
    ELSE StandardizeVendorName(extractedData.company_name)

\* dashboard/page.tsx 1272-1282: the payload saveInvoiceToFirestore hands to
\* saveInvoiceData, with the vendor name normalized.
NormalizedExtractedData(extractedData) ==
    [extractedData EXCEPT !.company_name =
        EnhancedVendorNormalization(IF IsDefined(@) THEN @ ELSE <<>>)]

\* invoiceStorage.ts 65-82: the record saveInvoiceData writes.
InvoiceData(found, userId, filename, extractedData, t) ==
    [id |-> IF found = {} THEN GenerateDocumentId(userId, filename, t)
            ELSE The(found).id,
     userId |-> userId,
     filename |-> CleanFilename(filename),
     originalFilename |-> filename,
     invoiceNumber |-> extractedData.invoice_number,
     vendorName |-> VendorName(extractedData),
     extractedData |-> extractedData,
     createdAt |-> CreatedAt(found, t),
     updatedAt |-> t]

\* invoiceStorage.ts 89-90: setDoc(docRef, invoiceData, {merge: true}); every
\* field of the document is among the fields written.
SetDoc(st, rec) == {r \in st : r.id # rec.id} \cup {rec}

\* invoiceStorage.ts 411-419: updateDoc rewrites the index fields, the payload
\* and updatedAt of the document and leaves the others.
UpdateDoc(st, id, extractedData, t) ==
    {IF r.id = id
        THEN [r EXCEPT !.invoiceNumber = extractedData.invoice_number,
                       !.vendorName = VendorName(extractedData),
                       !.extractedData = extractedData,
                       !.updatedAt = t]
        ELSE r : r \in st}

\* page.tsx 1400-1407: the dashboard posts the selected files in batches of
\* two.
MaxClientFiles == 3
CLIENT_BATCH_SIZE == 2
ClientBatches(files) == (Len(files) + CLIENT_BATCH_SIZE - 1) \div CLIENT_BATCH_SIZE
CurrentBatch(files, index) ==
    SubSeq(files, index * CLIENT_BATCH_SIZE + 1,
           Min(index * CLIENT_BATCH_SIZE + CLIENT_BATCH_SIZE, Len(files)))

\* The browser sessions whose calls may overlap.
MaxRaceCommits == 2
Sessions == {"s1", "s2"}

Owners == {"u1", "u2"}
Filenames == {<<"a">>, <<"A">>}
InvoiceNumbers == {Undefined, <<" ">>, <<"N">>, <<"n", " ">>, <<"M">>}
Payloads ==
    {[invoice_number |-> n, company_name |-> <<"A", "c", "m", "e">>] : n \in InvoiceNumbers}
\* The commits of the storage model: every commit of owner u1, and the
\* commits of owner u2 for one filename and one number.
CommitInputs ==
    {x \in Owners \X Filenames \X Payloads :
        x[1] = "u1" \/ (x[2] = <<"a">> /\ x[3].invoice_number = <<"N">>)}

\* ------------------------------------------------------ calls in progress
\* A call of the storage service or a commit of the dashboard is a sequence
\* of awaits.  Each access to the store (getDocs, setDoc, updateDoc,
\* deleteDoc), the upload and the connectivity check is one step of the call
\* a session has in progress; what runs between two awaits belongs to the
\* step that precedes it.
ClientSession == "s1"
NoData == [invoice_number |-> Undefined, company_name |-> Undefined]

\* A session without a call: pc is the await the call is at, call the entry
\* point, lookup the findExistingInvoice call under way (first: processInvoices,
\* second: saveInvoiceToFirestore, third: saveInvoiceData), number its
\* invoiceNumber argument, existing its latest result, known whether the
\* result's file is in the batch, db whether getFirebaseDB() returns a store,
\* result what saveInvoiceData has returned to saveInvoiceToFirestore.
IdleRun == [pc |-> "idle", call |-> "none", userId |-> "", filename |-> <<>>,
            data |-> NoData, known |-> TRUE, db |-> TRUE, lookup |-> "none",
            number |-> Undefined, existing |-> {}, isUpdate |-> FALSE,
            raised |-> FALSE, id |-> <<>>, result |-> <<>>]

\* The state before any call, with the given sessions.
SessionsInit(sessions) ==
    /\ request = [route |-> "none", formOk |-> TRUE, configured |-> TRUE, files |-> <<>>]
    /\ pc = "done"
    /\ retryCount = 0
    /\ healthResponse = "none"
    /\ probeLog = <<>>
    /\ calls = <<>>
    /\ settleLog = <<>>
    /\ batchIndex = 0
    /\ results = <<>>
    /\ response = NoResponse
    /\ store = {}
    /\ now = 1
    /\ history = <<>>
    /\ input = <<>>
    /\ output = <<>>
    /\ client = IdleClient
    /\ runs = [s \in sessions |-> IdleRun]

StoreInit == SessionsInit({ClientSession})

\* The calls that have started: the returned ones and the ones under way.
Started == Len(history) + Cardinality({s \in DOMAIN runs : runs[s].pc # "idle"})

\* What a storage fault of a step throws, "none" when the step succeeds.
QueryFaults == {"none", "unavailable"}
WriteFaults == {"none", "permission-denied"}
UploadFaults == {"none", "upload"}
NotInitialized == "Firebase Firestore not initialized"
StorageNotInitialized == "Firebase Storage not initialized"
NotFound == "not-found"

\* invoiceStorage.ts 101-105 and 427-432: the message of a failed write.
FailureMessage(prefix, reason) == <<prefix, reason>>

\* invoiceStorage.ts 118-126: findExistingInvoice starts with the exact query
\* when the number is given and not blank, else with the filename query.
BeginLookup(run, which, invoiceNumber) ==
    [run EXCEPT !.lookup = which, !.number = invoiceNumber, !.raised = FALSE,
                !.pc = IF NonBlank(invoiceNumber) THEN "exact" ELSE "filename"]

\* What follows the return of findExistingInvoice with found (the empty set
\* for null) at time t.
\*   page.tsx 1521-1529: after the lookup of processInvoices, a result whose
\*   file is not in the batch is skipped, else the connectivity is checked.
\*   page.tsx 1294-1305: after the lookup of saveInvoiceToFirestore, the file
\*   of a new invoice is uploaded, else saveInvoiceData is called.
\*   invoiceStorage.ts 65: after the lookup of saveInvoiceData, the id is
\*   the found one or generated from Date.now(), and setDoc is called.
AfterLookup(run, found, raised, t) ==
    LET r == [run EXCEPT !.existing = found, !.raised = raised]
    IN  CASE run.lookup = "first" ->
                [r EXCEPT !.pc = IF run.known THEN "online" ELSE "skip"]
          [] run.lookup = "second" ->
                IF found = {}
                THEN [r EXCEPT !.isUpdate = FALSE, !.pc = "upload"]
                ELSE BeginLookup([r EXCEPT !.isUpdate = TRUE], "third",
                                 run.data.invoice_number)
          [] run.lookup = "third" ->
                [r EXCEPT !.pc = "write",
                          !.isUpdate = IF run.call = "save" THEN found # {} ELSE @,
                          !.id = IF found = {}
                                 THEN GenerateDocumentId(run.userId, run.filename, t)
                                 ELSE The(found).id]

\* A catch of findExistingInvoice that rethrows nothing and answers as if the
\* query had found the stored match.
CaughtAsMatch(run, st, t) ==
    LET found == FindExistingInvoice(st, run.userId, run.filename, run.number)
    IN  AfterLookup(run, IF found = {} THEN {} ELSE {The(found)}, TRUE, t)

\* invoiceStorage.ts 172-174: the catch of findExistingInvoice returns null.
Caught(run, st, t) == AfterLookup(run, {}, TRUE, t)

\* page.tsx 1599-1633: after the last result of a batch, the delay before the
\* next batch, or the summary of the run.
AfterResult(c) ==
    IF c.next < Len(c.results) THEN [c EXCEPT !.pc = "commit", !.next = @ + 1]
    ELSE IF c.batchIndex < ClientBatches(c.files) - 1 THEN [c EXCEPT !.pc = "sleep"]
    ELSE [c EXCEPT !.pc = "ended",
                   !.toast = IF \E i \in DOMAIN c.outcomes :
                                    c.outcomes[i].status # "error"
                             THEN "complete" ELSE "none"]

\* page.tsx 1635-1640: an error thrown inside the try block ends the run with
\* the toast 'Processing failed: ...'.
Thrown(c, error) ==
    [c EXCEPT !.pc = "ended", !.toast = "failed", !.error = error]

\* page.tsx 1559-1588: processInvoices goes on when the commit it awaits has
\* returned: a saved result is shown and counted, a failed one is thrown.
\* The run of another session, or a call that processInvoices did not make,
\* leaves it alone.
Resumed(c, s, run, outcome, message) ==
    IF c.pc # "saving" \/ s # ClientSession THEN c
    ELSE IF outcome = "skipped" THEN AfterResult(c)
    ELSE IF outcome = "offline" THEN Thrown(c, "Network connection lost while saving")
    ELSE IF outcome = "failed" THEN Thrown(c, message[2])
    ELSE AfterResult([c EXCEPT !.outcomes =
                        Append(@, [filename |-> run.filename, status |-> outcome])])

\* The call of session s is at its next await, or it has ended without
\* touching the store (page.tsx 1527-1529, `continue`).
Proceed(s, next) ==
    IF next.pc = "skip"
    THEN /\ runs' = [runs EXCEPT ![s] = IdleRun]
         /\ client' = Resumed(client, s, next, "skipped", <<>>)
    ELSE /\ runs' = [runs EXCEPT ![s] = next]
         /\ UNCHANGED client

\* An entry of the log of returned calls: the session and the arguments, what
\* the call reported and its message, the id it wrote or would have written,
\* the time its storage call returned, the createdAt of the record it left,
\* whether its last lookup raised, whether a record matched its arguments
\* when it returned, and whether it added a document.
Event(s, run, outcome, message, st) ==
    [session |-> s, call |-> run.call, owner |-> run.userId,
     filename |-> run.filename, data |-> run.data, outcome |-> outcome,
     message |-> message, id |-> run.id, at |-> now,
     createdAt |-> IF \E r \in st : r.id = run.id
                   THEN (CHOOSE r \in st : r.id = run.id).createdAt ELSE 0,
     raised |-> run.raised,
     matched |-> FindExistingInvoice(store, run.userId, run.filename,
                                     run.data.invoice_number) # {},
     added |-> /\ run.id \notin {r.id : r \in store}
               /\ run.id \in {r.id : r \in st}]

\* The call of session s returns outcome and message, leaving the store st.
Return(s, run, outcome, message, st) ==
    /\ store' = st
    /\ history' = Append(history, Event(s, run, outcome, message, st))
    /\ runs' = [runs EXCEPT ![s] = IdleRun]
    /\ client' = Resumed(client, s, run, outcome, message)

\* page.tsx 1324-1326: saveInvoiceData has returned success to
\* saveInvoiceToFirestore, which awaits loadAllInvoicesFromDB() before it
\* returns to processInvoices; the store holds the record, the outcome is not
\* listed yet.  A direct call of saveInvoiceData and a failed one return at
\* once.
Saved(s, run, outcome, message, st) ==
    IF run.call = "commit" /\ outcome # "failed"
    THEN /\ store' = st
         /\ runs' = [runs EXCEPT ![s] =
                       [run EXCEPT !.pc = "refresh",
                                   !.result = <<Event(s, run, outcome, message, st)>>]]
         /\ UNCHANGED <<history, client>>
    ELSE Return(s, run, outcome, message, st)

\* page.tsx 926-973, 1326-1333: the getDocs of loadAllInvoicesFromDB has
\* settled (its errors are caught and shown, 968-970) and
\* saveInvoiceToFirestore returns what saveInvoiceData reported.
LoadAllInvoicesFromDB(s) ==
    /\ runs[s].pc = "refresh"
    /\ LET run == runs[s]
           e == run.result[1]
       IN  /\ history' = Append(history, e)
           /\ runs' = [runs EXCEPT ![s] = IdleRun]
           /\ client' = Resumed(client, s, run, e.outcome, e.message)
    /\ UNCHANGED <<routeVars, store, now, normVars>>

\* invoiceStorage.ts 42-63: saveInvoiceData is called; it imports the
\* normalizer and calls findExistingInvoice with the number of the payload.
SaveInvoiceData(s, userId, filename, extractedData, db) ==
    /\ runs[s].pc = "idle"
    /\ runs' = [runs EXCEPT ![s] =
                  BeginLookup([IdleRun EXCEPT !.call = "save", !.userId = userId,
                                              !.filename = filename,
                                              !.data = extractedData, !.db = db],
                              "third", extractedData.invoice_number)]
    /\ UNCHANGED <<client, routeVars, storeVars, normVars>>

\* invoiceStorage.ts 391-410: updateInvoiceData is called with the id of a
\* document; its userId parameter is not read.
UpdateInvoiceData(s, documentId, userId, extractedData, db) ==
    /\ runs[s].pc = "idle"
    /\ runs' = [runs EXCEPT ![s] =
                  [IdleRun EXCEPT !.call = "update", !.userId = userId,
                                  !.data = extractedData, !.db = db,
                                  !.id = documentId, !.isUpdate = TRUE,
                                  !.pc = "update"]]
    /\ UNCHANGED <<client, routeVars, storeVars, normVars>>

\* page.tsx 1110-1116 with invoiceStorage.ts 363-372: the dashboard deletes a
\* listed invoice by its id.
DeleteInvoiceData(s, documentId, db) ==
    /\ runs[s].pc = "idle"
    /\ runs' = [runs EXCEPT ![s] =
                  [IdleRun EXCEPT !.call = "delete", !.id = documentId,
                                  !.db = db, !.pc = "delete"]]
    /\ UNCHANGED <<client, routeVars, storeVars, normVars>>

\* page.tsx 1505-1535: the commit of one successful result in processInvoices
\* starts: a non-blank number is looked up, trimmed; without one the file is
\* sought in the batch and the connectivity is checked.
CommitRun(userId, filename, extractedData, known, db) ==
    LET run == [IdleRun EXCEPT !.call = "commit", !.userId = userId,
                               !.filename = filename, !.data = extractedData,
                               !.known = known, !.db = db]
    IN  IF NonBlank(extractedData.invoice_number)
        THEN BeginLookup(run, "first", Trim(extractedData.invoice_number))
        ELSE [run EXCEPT !.pc = IF known THEN "online" ELSE "skip"]

\* The commit of a result by a dashboard whose run is not followed further.
ProcessInvoicesCommit(s, userId, filename, extractedData, db) ==
    /\ runs[s].pc = "idle"
    /\ runs' = [runs EXCEPT ![s] = CommitRun(userId, filename, extractedData, TRUE, db)]
    /\ UNCHANGED <<client, routeVars, storeVars, normVars>>

\* Mutant of QueryExact: the lookup consults the filename before the number.
QueryExactFilenameFirst(s, fault) ==
    /\ runs[s].pc = "exact"
    /\ LET run == runs[s]
           named == FilenameMatches(store, run.userId, run.filename)
           docs == ExactMatches(store, run.userId, run.number)
       IN  IF fault # "none" \/ ~run.db THEN Proceed(s, Caught(run, store, now))
           ELSE IF named # {}
           THEN \E r \in named : Proceed(s, AfterLookup(run, {r}, FALSE, now))
           ELSE IF docs # {}
           THEN \E r \in docs : Proceed(s, AfterLookup(run, {r}, FALSE, now))
           ELSE Proceed(s, [run EXCEPT !.pc = "scan"])
    /\ UNCHANGED <<routeVars, storeVars, normVars>>

\* invoiceStorage.ts 130-140: the exact query has returned.
QueryExact(s, fault) ==
    /\ runs[s].pc = "exact"
    /\ LET run == runs[s]
           docs == ExactMatches(store, run.userId, run.number)
       IN  IF fault # "none" \/ ~run.db THEN Proceed(s, Caught(run, store, now))
           ELSE IF docs # {}
           THEN \E r \in docs : Proceed(s, AfterLookup(run, {r}, FALSE, now))
           ELSE Proceed(s, [run EXCEPT !.pc = "scan"])
    /\ UNCHANGED <<routeVars, storeVars, normVars>>

\* invoiceStorage.ts 143-155: the query of the owner's records has returned
\* and is scanned for the number.
QueryScan(s, fault) ==
    /\ runs[s].pc = "scan"
    /\ LET run == runs[s]
           docs == ScanMatches(store, run.userId, run.number)
       IN  IF fault # "none" THEN Proceed(s, Caught(run, store, now))
           ELSE IF docs # {}
           THEN \E r \in docs : Proceed(s, AfterLookup(run, {r}, FALSE, now))
           ELSE Proceed(s, [run EXCEPT !.pc = "filename"])
    /\ UNCHANGED <<routeVars, storeVars, normVars>>

\* invoiceStorage.ts 159-171: the filename query has returned.
QueryFilename(s, fault) ==
    /\ runs[s].pc = "filename"
    /\ LET run == runs[s]
           docs == FilenameMatches(store, run.userId, run.filename)
       IN  IF fault # "none" \/ ~run.db THEN Proceed(s, Caught(run, store, now))
           ELSE IF docs # {}
           THEN \E r \in docs : Proceed(s, AfterLookup(run, {r}, FALSE, now))
           ELSE Proceed(s, AfterLookup(run, {}, FALSE, now))
    /\ UNCHANGED <<routeVars, storeVars, normVars>>

\* page.tsx 1531-1557: the connectivity check before the save has returned.
\* Offline throws; online, a found invoice is updated through
\* updateInvoiceData, else saveInvoiceToFirestore normalizes the names and
\* looks the invoice up with the number of the payload (1271-1292).
CheckNetworkConnectivity(s, isOnline) ==
    /\ runs[s].pc = "online"
    /\ LET run == runs[s]
       IN  IF ~isOnline
           THEN /\ runs' = [runs EXCEPT ![s] = IdleRun]
                /\ client' = Resumed(client, s, run, "offline", <<>>)
           ELSE IF run.existing # {}
           THEN Proceed(s, [run EXCEPT !.pc = "update", !.isUpdate = TRUE,
                                       !.id = The(run.existing).id])
           ELSE Proceed(s, BeginLookup(run, "second", run.data.invoice_number))
    /\ UNCHANGED <<routeVars, storeVars, normVars>>

\* page.tsx 1301-1322 with FileStorageService.uploadPDF: the upload of the
\* file of a new invoice has returned; a failed upload is thrown and returned
\* by saveInvoiceToFirestore's catch (1336-1341), else saveInvoiceData is
\* called.
UploadPDF(s, fault) ==
    /\ runs[s].pc = "upload"
    /\ LET run == runs[s]
           reason == IF ~run.db THEN StorageNotInitialized ELSE fault
       IN  IF reason # "none"
           THEN Return(s, run, "failed", FailureMessage("", reason), store)
           ELSE /\ Proceed(s, BeginLookup(run, "third", run.data.invoice_number))
                /\ UNCHANGED <<store, history>>
    /\ UNCHANGED <<routeVars, now, normVars>>

\* The payload a call writes: saveInvoiceToFirestore hands saveInvoiceData
\* the payload with the names normalized (page.tsx 1316-1322).
WrittenData(run) ==
    IF run.call = "commit" THEN NormalizedExtractedData(run.data) ELSE run.data

\* A write that reaches the store although the storage layer rejected it.
WrittenAnyway(st, written, reason) == written

\* The store after a write the storage layer accepted or rejected.
Written(st, written, reason) == IF reason = "none" THEN written ELSE st

\* A setDoc that looks the invoice up again at the moment it reaches the
\* server and merges into the record it finds.
SetInvoiceDocLinearizable(s, fault) ==
    /\ runs[s].pc = "write"
    /\ LET run == runs[s]
       IN  \E found \in Results(FindExistingInvoice(store, run.userId, run.filename,
                                                    run.data.invoice_number)) :
              LET rec == [InvoiceData(found, run.userId, run.filename,
                                      WrittenData(run), now)
                            EXCEPT !.id = IF found = {} THEN run.id ELSE The(found).id]
              IN  Saved(s, [run EXCEPT !.id = rec.id],
                        IF found # {} THEN "updated" ELSE "created",
                        <<IF found # {} THEN "updated" ELSE "saved">>,
                        SetDoc(store, rec))
    /\ UNCHANGED <<routeVars, now, normVars>>

\* invoiceStorage.ts 67-106 with page.tsx 1324-1341: setDoc has returned.  The
\* record is built from the result of the lookup of saveInvoiceData; the
\* message says updated or saved by that lookup, and the dashboard reports
\* the isUpdate of saveInvoiceToFirestore's lookup.  Without a store the call
\* throws before the write (84-87).
SetInvoiceDoc(s, fault) ==
    /\ runs[s].pc = "write"
    /\ LET run == runs[s]
           reason == IF ~run.db THEN NotInitialized ELSE fault
           rec == [InvoiceData(run.existing, run.userId, run.filename,
                               WrittenData(run), now) EXCEPT !.id = run.id]
       IN  Saved(s, run,
                 IF reason # "none" THEN "failed"
                 ELSE IF run.isUpdate THEN "updated" ELSE "created",
                 IF reason # "none"
                 THEN FailureMessage("Failed to save invoice data: ", reason)
                 ELSE <<IF run.existing # {} THEN "updated" ELSE "saved">>,
                 Written(store, SetDoc(store, rec), reason))
    /\ UNCHANGED <<routeVars, now, normVars>>

\* invoiceStorage.ts 399-432: updateDoc has returned; it rejects the update of
\* a document that is not stored.
UpdateInvoiceDoc(s, fault) ==
    /\ runs[s].pc = "update"
    /\ LET run == runs[s]
           reason == IF ~run.db THEN NotInitialized
                     ELSE IF fault # "none" THEN fault
                     ELSE IF run.id \notin {r.id : r \in store} THEN NotFound
                     ELSE "none"
       IN  Return(s, run,
                  IF reason # "none" THEN "failed" ELSE "updated",
                  IF reason # "none"
                  THEN FailureMessage("Failed to update invoice data: ", reason)
                  ELSE <<"updated">>,
                  Written(store, UpdateDoc(store, run.id, run.data, now), reason))
    /\ UNCHANGED <<routeVars, now, normVars>>

\* invoiceStorage.ts 367-385: deleteDoc has returned.  Without a store the
\* call throws before the delete (367-370).
DeleteInvoiceDoc(s, fault) ==
    /\ runs[s].pc = "delete"
    /\ LET run == runs[s]
           reason == IF ~run.db THEN NotInitialized ELSE fault
       IN  Return(s, run,
                  IF reason # "none" THEN "failed" ELSE "deleted",
                  IF reason # "none"
                  THEN FailureMessage("Failed to delete invoice: ", reason)
                  ELSE <<"deleted">>,
                  Written(store, {r \in store : r.id # run.id}, reason))
    /\ UNCHANGED <<routeVars, now, normVars>>

\* Time passes on the clock behind serverTimestamp() and Date.now().
Tick ==
    /\ now < MaxClock
    /\ now' = now + 1
    /\ UNCHANGED <<store, history, nonStoreVars>>

\* The calls of one session against a storage layer without faults: the
\* session awaits each call before it makes the next.
StoreNext ==
    \/ /\ Started < MaxCommits
       /\ \E s \in DOMAIN runs, x \in CommitInputs :
             SaveInvoiceData(s, x[1], x[2], x[3], TRUE)
    \/ /\ Started < MaxCommits
       /\ \E s \in DOMAIN runs, x \in CommitInputs :
             ProcessInvoicesCommit(s, x[1], x[2], x[3], TRUE)
    \/ /\ Started < MaxCommits
       /\ \E s \in DOMAIN runs, r \in store : DeleteInvoiceData(s, r.id, TRUE)
    \/ \E s \in DOMAIN runs : QueryExact(s, "none")
    \/ \E s \in DOMAIN runs : QueryScan(s, "none")
    \/ \E s \in DOMAIN runs : QueryFilename(s, "none")
    \/ \E s \in DOMAIN runs : CheckNetworkConnectivity(s, TRUE)
    \/ \E s \in DOMAIN runs : UploadPDF(s, "none")
    \/ \E s \in DOMAIN runs : SetInvoiceDoc(s, "none")
    \/ \E s \in DOMAIN runs : LoadAllInvoicesFromDB(s)
    \/ \E s \in DOMAIN runs : UpdateInvoiceDoc(s, "none")
    \/ \E s \in DOMAIN runs : DeleteInvoiceDoc(s, "none")
    \/ Tick

StoreSpec == StoreInit /\ [][StoreNext]_vars

\* The calls of saveInvoiceData alone: the stores the lookup is queried on.
LookupNext ==
    \/ /\ Started < MaxLookupCommits
       /\ \E s \in DOMAIN runs, x \in CommitInputs :
             SaveInvoiceData(s, x[1], x[2], x[3], TRUE)
    \/ \E s \in DOMAIN runs : QueryExact(s, "none")
    \/ \E s \in DOMAIN runs : QueryScan(s, "none")
    \/ \E s \in DOMAIN runs : QueryFilename(s, "none")
    \/ \E s \in DOMAIN runs : SetInvoiceDoc(s, "none")
    \/ Tick

LookupSpec == StoreInit /\ [][LookupNext]_vars

\* Three commits of one owner, one at a time and without faults: the stores
\* in which a commit that matched its record through the filename meets a
\* second record of the owner.  The file a comes with no number and with
\* every non-blank number, the file A with the numbers N and M.
MaxRenumberCommits == 3
RenumberInputs ==
    {x \in CommitInputs :
        /\ x[1] = "u1" /\ x[3].invoice_number # <<" ">>
        /\ (x[2] = <<"a">> \/ x[3].invoice_number \in {<<"N">>, <<"M">>})}
RenumberNext ==
    \/ /\ Started < MaxRenumberCommits
       /\ \E s \in DOMAIN runs, x \in RenumberInputs :
             SaveInvoiceData(s, x[1], x[2], x[3], TRUE)
    \/ /\ Started < MaxRenumberCommits
       /\ \E s \in DOMAIN runs, x \in RenumberInputs :
             ProcessInvoicesCommit(s, x[1], x[2], x[3], TRUE)
    \/ \E s \in DOMAIN runs : QueryExact(s, "none")
    \/ \E s \in DOMAIN runs : QueryScan(s, "none")
    \/ \E s \in DOMAIN runs : QueryFilename(s, "none")
    \/ \E s \in DOMAIN runs : CheckNetworkConnectivity(s, TRUE)
    \/ \E s \in DOMAIN runs : UploadPDF(s, "none")
    \/ \E s \in DOMAIN runs : SetInvoiceDoc(s, "none")
    \/ \E s \in DOMAIN runs : LoadAllInvoicesFromDB(s)
    \/ \E s \in DOMAIN runs : UpdateInvoiceDoc(s, "none")
    \/ Tick

RenumberSpec == StoreInit /\ [][RenumberNext]_vars

\* ----------------------------------------------------------- vendor names
\* The company names the extraction service may return for a vendor.
CompanyNames ==
    {Undefined, <<>>, <<".">>, <<"a", "c", "m", "e">>,
     normalizationRules[1][1], normalizationRules[2][1]}
VendorInputs ==
    {<<"u1", <<"a">>, [invoice_number |-> n, company_name |-> c]>> :
        n \in {Undefined, <<"N">>}, c \in CompanyNames}

\* The storage service and the dashboard commit, fed with payloads of
\* different vendors.
VendorNext ==
    \/ /\ Started < MaxCommits
       /\ \E s \in DOMAIN runs, x \in VendorInputs :
             SaveInvoiceData(s, x[1], x[2], x[3], TRUE)
    \/ /\ Started < MaxCommits
       /\ \E s \in DOMAIN runs, x \in VendorInputs :
             ProcessInvoicesCommit(s, x[1], x[2], x[3], TRUE)
    \/ \E s \in DOMAIN runs : QueryExact(s, "none")
    \/ \E s \in DOMAIN runs : QueryScan(s, "none")
    \/ \E s \in DOMAIN runs : QueryFilename(s, "none")
    \/ \E s \in DOMAIN runs : CheckNetworkConnectivity(s, TRUE)
    \/ \E s \in DOMAIN runs : UploadPDF(s, "none")
    \/ \E s \in DOMAIN runs : SetInvoiceDoc(s, "none")
    \/ \E s \in DOMAIN runs : LoadAllInvoicesFromDB(s)
    \/ \E s \in DOMAIN runs : UpdateInvoiceDoc(s, "none")
    \/ Tick

VendorSpec == StoreInit /\ [][VendorNext]_vars

\* =============================================================== normalizer
\* The characters of the enumerated inputs: letters in both cases, a digit,
\* the space, the period, the ampersand, the hyphen and other punctuation.
NormAlphabet == {"a", "B", "1", " ", ".", "&", "-", ","}
Strings(n) == UNION {[1..k -> NormAlphabet] : k \in 0..n}

\* Inputs with the characters the enumeration leaves out.
SpecialNames ==
    {Undefined,
     <<"ZWSP">>, <<"a", "ZWSP", "b">>, <<"TAB", "a", "TAB", "NBSP", "b">>,
     <<"fwA", "c", "m", "e", "ellipsis">>, <<"a", "_", "b">>, <<"1", "s", "t">>}

\* The spellings named by the override table.
TableNames ==
    {normalizationRules[k][1] : k \in DOMAIN normalizationRules}
    \cup {normalizationRules[k][2] : k \in DOMAIN normalizationRules}

NormInputs == Strings(MaxNameLen) \cup SpecialNames \cup TableNames

NormInit ==
    /\ input \in NormInputs
    /\ request = [route |-> "none", formOk |-> TRUE, configured |-> TRUE, files |-> <<>>]
    /\ pc = "done"
    /\ retryCount = 0
    /\ healthResponse = "none"
    /\ probeLog = <<>>
    /\ calls = <<>>
    /\ settleLog = <<>>
    /\ batchIndex = 0
    /\ results = <<>>
    /\ response = NoResponse
    /\ store = {}
    /\ now = 1
    /\ history = <<>>
    /\ output = <<>>
    /\ client = IdleClient
    /\ runs = <<>>

\* The value the next call is applied to: the input, then the last result.
Argument == IF output = <<>> THEN input ELSE output[Len(output)].value

\* dataUtils.ts 23-36: standardizeVendorName applied to the input and then
\* to its own result.
Standardize ==
    /\ Len(output) < 2
    /\ \A i \in DOMAIN output : output[i].fn = "standardizeVendorName"
    /\ output' = Append(output, [fn |-> "standardizeVendorName",
                                 value |-> StandardizeVendorName(Argument)])
    /\ UNCHANGED <<input, routeVars, storeVars, clientVars>>

\* dashboard/page.tsx 556-584: enhancedVendorNormalization applied to the
\* input and then to its own result.
Enhance ==
    /\ Len(output) < 2
    /\ \A i \in DOMAIN output : output[i].fn = "enhancedVendorNormalization"
    /\ output' = Append(output, [fn |-> "enhancedVendorNormalization",
                                 value |-> EnhancedVendorNormalization(Argument)])
    /\ UNCHANGED <<input, routeVars, storeVars, clientVars>>

NormNext == Standardize \/ Enhance

NormSpec == NormInit /\ [][NormNext]_vars

\* ============================================================ storage errors
\* The calls of the storage service against a storage layer that may fail:
\* getFirebaseDB() may return no store for a call, each query of a lookup
\* may throw, and each write may be rejected.
FaultyInputs ==
    {x \in CommitInputs : x[1] = "u1" /\ x[3].invoice_number \notin {<<" ">>, <<"M">>}}
\* The payload of the direct calls of updateInvoiceData.
FaultyUpdate == [invoice_number |-> <<"M">>, company_name |-> <<"A", "c", "m", "e">>]

FaultNext ==
    \/ /\ Started < MaxFaultyCommits
       /\ \E s \in DOMAIN runs, x \in FaultyInputs, db \in BOOLEAN :
             SaveInvoiceData(s, x[1], x[2], x[3], db)
    \/ /\ Started < MaxFaultyCommits
       /\ \E s \in DOMAIN runs, r \in store, u \in Owners, db \in BOOLEAN :
             UpdateInvoiceData(s, r.id, u, FaultyUpdate, db)
    \/ /\ Started < MaxFaultyCommits
       /\ \E s \in DOMAIN runs, r \in store, db \in BOOLEAN :
             DeleteInvoiceData(s, r.id, db)
    \/ \E s \in DOMAIN runs, fault \in QueryFaults : QueryExact(s, fault)
    \/ \E s \in DOMAIN runs, fault \in QueryFaults : QueryScan(s, fault)
    \/ \E s \in DOMAIN runs, fault \in QueryFaults : QueryFilename(s, fault)
    \/ \E s \in DOMAIN runs, fault \in WriteFaults : SetInvoiceDoc(s, fault)
    \/ \E s \in DOMAIN runs, fault \in WriteFaults : UpdateInvoiceDoc(s, fault)
    \/ \E s \in DOMAIN runs, fault \in WriteFaults : DeleteInvoiceDoc(s, fault)
    \/ Tick

FaultSpec == StoreInit /\ [][FaultNext]_vars

\* The commits of the dashboard against a storage layer that may fail.
CommitFaultNext ==
    \/ /\ Started < MaxFaultyCommits
       /\ \E s \in DOMAIN runs, x \in FaultyInputs, db \in BOOLEAN :
             ProcessInvoicesCommit(s, x[1], x[2], x[3], db)
    \/ \E s \in DOMAIN runs, fault \in QueryFaults : QueryExact(s, fault)
    \/ \E s \in DOMAIN runs, fault \in QueryFaults : QueryScan(s, fault)
    \/ \E s \in DOMAIN runs, fault \in QueryFaults : QueryFilename(s, fault)
    \/ \E s \in DOMAIN runs : CheckNetworkConnectivity(s, TRUE)
    \/ \E s \in DOMAIN runs, fault \in UploadFaults : UploadPDF(s, fault)
    \/ \E s \in DOMAIN runs, fault \in WriteFaults : SetInvoiceDoc(s, fault)
    \/ \E s \in DOMAIN runs : LoadAllInvoicesFromDB(s)
    \/ \E s \in DOMAIN runs, fault \in WriteFaults : UpdateInvoiceDoc(s, fault)
    \/ Tick

CommitFaultSpec == StoreInit /\ [][CommitFaultNext]_vars

\* ============================================ dashboard: processInvoices
\* dashboard/page.tsx 1375-1641.  The run of processInvoices over the selected
\* files: batches of two, one POST per batch, then one commit per result.
ClientFilenames == {<<"a">>, <<"A">>, <<"b">>}
\* A filename of a result that is not the name of a selected file.
ForeignFilename == <<"c">>

\* The selections of up to MaxClientFiles files with different names.
Selections ==
    UNION {{f \in [1..n -> ClientFilenames] : \A i, j \in 1..n : i # j => f[i] # f[j]}
            : n \in 0..MaxClientFiles}

\* What the extraction returns for a file: the files a and A carry the same
\* document number in two spellings, the file b carries none.
ExtractedOf(filename) ==
    [invoice_number |-> IF filename = <<"a">> THEN <<"N">>
                        ELSE IF filename = <<"A">> THEN <<"n", " ">>
                        ELSE Undefined,
     company_name |-> <<"A", "c", "m", "e">>]

\* page.tsx 1346-1370: what checkNetworkConnectivity returns, as
\* <<isOnline, isWeak>>: isOnline tells whether the HEAD was answered with a
\* 2xx status or 405, isWeak whether the answer took more than 3 s.
Connectivity == BOOLEAN \X BOOLEAN

\* The errors the POST of a batch rejects with in the browser: the TypeError
\* of a connection that failed, with the message of the browser, and the
\* TimeoutError of AbortSignal.timeout(60000), with the message of the
\* runtime.
ClientFetchErrors ==
    {[name |-> "TypeError", message |-> m] :
        m \in {"Failed to fetch", "NetworkError when attempting to fetch resource.",
               "Load failed"}}
    \cup {[name |-> "TimeoutError", message |-> m] :
            m \in {"signal timed out", TimeoutMessage}}

\* The errors the read of the route's answer (response.json()) rejects with
\* after the POST has resolved: the TypeError of a stream that broke, or the
\* TimeoutError of the POST's timer, which stays armed during the read.
ClientBodyErrors ==
    {[name |-> "TypeError", message |-> m] : m \in StreamErrorMessages}
    \cup {[name |-> "TimeoutError", message |-> m] :
            m \in {"signal timed out", TimeoutMessage}}
\* What the read of the answer does: it returns the JSON, or it rejects.
ClientBodyReads ==
    {[kind |-> "json", name |-> "", message |-> ""]}
    \cup {[kind |-> "error", name |-> e.name, message |-> e.message] :
            e \in ClientBodyErrors}

\* The extraction service answers a POST of the dashboard also with 503.
DashboardFetchOutcomes ==
    FetchOutcomes \cup {[kind |-> "headers", message |-> "", status |-> 503]}

\* The sentences that end the messages of processInvoices.
CheckConnection == " Please check your internet connection and try again."
Preserved == " Your files have been preserved."

\* page.tsx 1424-1426: the error thrown when the connectivity check before
\* the POST of batch n (1-based) reports offline.
ConnectionLost(n) ==
    "Network connection lost while processing batch " \o ToString(n) \o "."
        \o CheckConnection \o Preserved

\* page.tsx 1472-1475: the error thrown when the body of an answer that is
\* not ok cannot be read.
ServerUnavailable ==
    "Network error or server unavailable." \o CheckConnection \o Preserved

\* page.tsx 1477-1496: the message of the error thrown for an answer r of the
\* forwarding route that is not ok and whose body was read.
ResponseErrorMessage(r) ==
    IF r.setupRequired
        THEN "Backend API not configured. Please check environment settings."
    ELSE IF r.status = 502
        THEN "Backend service temporarily unavailable. Please try again in a few minutes."
                \o Preserved
    ELSE IF r.status = 504 \/ r.status = 408
        THEN "Request timeout. The backend took too long to process the files."
                \o CheckConnection \o Preserved
    ELSE IF r.status = 503
        THEN "Backend service is currently unavailable."
                \o (IF r.retryAfter # 0
                    THEN " Please try again in " \o ToString(r.retryAfter) \o " seconds."
                    ELSE " Please try again in a few moments.")
                \o Preserved
    ELSE "Processing error: "
            \o (IF r.message # "" THEN r.message ELSE "Server error occurred")
            \o "." \o Preserved

\* page.tsx 1375-1400: the checks before the loop.
ProcessInvoicesStart(uploadedFiles, isOnline) ==
    /\ client.pc = "idle"
    /\ client' = IF Len(uploadedFiles) = 0
                 THEN [client EXCEPT !.pc = "ended", !.toast = "select-files"]
                 ELSE IF ~isOnline
                 THEN [client EXCEPT !.pc = "ended", !.toast = "offline",
                                     !.files = uploadedFiles]
                 ELSE [client EXCEPT !.pc = "batch", !.files = uploadedFiles]
    /\ UNCHANGED <<runs, routeVars, storeVars, normVars>>

\* page.tsx 1412-1445 with 990-1060: the connectivity check of a batch, then
\* its POST.  The request reaches the forwarding route with a form that holds
\* the files of the batch, each a PDF within the size limit (the selection
\* keeps no other file) and named here by its position in the batch; whether
\* the route is configured is left open.
ProcessInvoicesBatch(isOnline, configured) ==
    /\ client.pc = "batch"
    /\ IF ~isOnline
       THEN /\ client' = Thrown(client, ConnectionLost(client.batchIndex + 1))
            /\ UNCHANGED routeVars
       ELSE /\ client' = [client EXCEPT !.pc = "fetch"]
            /\ request' = [route |-> "forward", formOk |-> TRUE,
                           configured |-> configured,
                           files |-> [i \in DOMAIN CurrentBatch(client.files,
                                                                client.batchIndex)
                                        |-> File(i, PDF, 1024)]]
            /\ pc' = "start"
            /\ healthResponse' = "none"
            /\ probeLog' = <<>>
            /\ calls' = <<>>
            /\ response' = NoResponse
            /\ UNCHANGED <<retryCount, settleLog, batchIndex, results>>
    /\ UNCHANGED <<runs, storeVars, normVars>>

\* page.tsx 1439-1448: the POST rejects, at any point of the route's work on
\* the request or on the way of its answer: the connection failed or the 60 s
\* of the client's timer passed.  The catch calls checkNetworkConnectivity
\* and awaits it; the route goes on.
ProcessInvoicesFetchError(fetchError) ==
    /\ client.pc = "fetch"
    /\ client' = [client EXCEPT !.pc = "recheck", !.fetchError = fetchError]
    /\ UNCHANGED <<runs, routeVars, storeVars, normVars>>

\* page.tsx 1448-1466: the connectivity check of the catch has returned; the
\* error is thrown under one of four messages.
ProcessInvoicesFetchCatch(isOnline, isWeak) ==
    /\ client.pc = "recheck"
    /\ LET n == ToString(client.batchIndex + 1)
           fetchError == client.fetchError
           lost == "Network connection lost during batch " \o n \o " processing."
                      \o CheckConnection \o Preserved
       IN  client' = Thrown([client EXCEPT !.fetchError = IdleClient.fetchError],
              IF ~isOnline THEN lost
              ELSE IF isWeak
                  THEN "Weak internet connection detected during batch " \o n
                          \o " processing. Please try again with a stronger connection."
                          \o Preserved
              ELSE IF \/ fetchError.name = "AbortError"
                      \/ Includes(fetchError.message, "timeout")
                  THEN "Request timeout during batch " \o n \o "."
                          \o CheckConnection \o Preserved
              ELSE IF \/ Includes(fetchError.message, "Failed to fetch")
                      \/ Includes(fetchError.message, "NetworkError")
                  THEN "Network error detected during batch " \o n \o "."
                          \o CheckConnection \o Preserved
              ELSE lost)
    /\ UNCHANGED <<runs, routeVars, storeVars, normVars>>

\* page.tsx 1439-1445: the POST resolves with the headers of the answer the
\* route has returned; the body is read next.
ProcessInvoicesResponse ==
    /\ client.pc = "fetch"
    /\ request.route = "forward" /\ pc = "done"
    /\ client' = [client EXCEPT !.pc = "body"]
    /\ UNCHANGED <<runs, routeVars, storeVars, normVars>>

\* page.tsx 1468-1505 and 1595-1597: the read of the body (response.json())
\* has settled.  Of an answer that is not ok, a read that failed throws under
\* the message of 1474 and a body that was read under the message of
\* ResponseErrorMessage.  Of a 200 answer, a read that failed throws its own
\* error, a body without success throws its message, a body whose data is
\* null the TypeError of result.data.results.  The results are the entries of
\* the body the route passed on (result.data.results || []): an entry named
\* after a file of the batch carries what the extraction returns for that
\* file, an entry without a name carries no number; a null entry throws when
\* the loop reaches it.
ProcessInvoicesAnswer(read) ==
    /\ client.pc = "body"
    /\ LET currentBatch == CurrentBatch(client.files, client.batchIndex)
           entries == response.body.results
           Name(e) == IF e.hasName THEN currentBatch[e.filename] ELSE ForeignFilename
       IN  client' =
             IF ~ResponseOk(response.status)
                 THEN Thrown(client, IF read.kind = "error" THEN ServerUnavailable
                                     ELSE ResponseErrorMessage(response))
             ELSE IF read.kind = "error" THEN Thrown(client, read.message)
             ELSE IF ~response.success THEN Thrown(client, response.message)
             ELSE IF ~response.body.isObject THEN Thrown(client, NullBodyMessage)
             ELSE IF entries = <<>>
                 THEN AfterResult([client EXCEPT !.results = <<>>, !.next = 0])
             ELSE [client EXCEPT
                     !.pc = "commit", !.next = 1,
                     !.results = [i \in DOMAIN entries |->
                                    [isNull |-> entries[i].isNull,
                                     filename |-> Name(entries[i]),
                                     success |-> entries[i].success,
                                     data |-> ExtractedOf(Name(entries[i]))]]]
    /\ UNCHANGED <<runs, routeVars, storeVars, normVars>>

\* page.tsx 1505-1529 and 1589-1592: one result of the batch.  A null entry
\* throws the TypeError of fileResult.success; a failed extraction is shown
\* and the loop goes on; the commit of a successful one starts, and
\* processInvoices awaits it.
ProcessInvoicesResult ==
    /\ client.pc = "commit"
    /\ runs[ClientSession].pc = "idle"
    /\ LET fileResult == client.results[client.next]
           currentBatch == CurrentBatch(client.files, client.batchIndex)
           run == CommitRun("u1", fileResult.filename, fileResult.data,
                            fileResult.filename \in Range(currentBatch), TRUE)
       IN  IF fileResult.isNull
           THEN /\ client' = Thrown(client, NullBodyMessage)
                /\ UNCHANGED runs
           ELSE IF ~fileResult.success
           THEN /\ client' = AfterResult([client EXCEPT !.outcomes =
                                Append(@, [filename |-> fileResult.filename,
                                           status |-> "error"])])
                /\ UNCHANGED runs
           ELSE IF run.pc = "skip"
           THEN /\ client' = AfterResult(client)
                /\ UNCHANGED runs
           ELSE /\ client' = [client EXCEPT !.pc = "saving"]
                /\ runs' = [runs EXCEPT ![ClientSession] = run]
    /\ UNCHANGED <<routeVars, storeVars, normVars>>

\* page.tsx 1599-1602: the delay between two batches has passed.
ProcessInvoicesDelay ==
    /\ client.pc = "sleep"
    /\ client' = [client EXCEPT !.pc = "batch", !.batchIndex = @ + 1]
    /\ UNCHANGED <<runs, routeVars, storeVars, normVars>>

ClientNext ==
    \/ \E uploadedFiles \in Selections, isOnline \in BOOLEAN :
            ProcessInvoicesStart(uploadedFiles, isOnline)
    \/ \E isOnline \in BOOLEAN, configured \in BOOLEAN :
            ProcessInvoicesBatch(isOnline, configured)
    \/ ForwardStart
    \/ \E o \in ProbeOutcomes : ForwardHealthReturn(o)
    \/ \E o \in DashboardFetchOutcomes : ForwardFetchReturn(o)
    \/ \E body \in ForwardBodies(request.files,
                                 IF calls # <<>> THEN calls[1].status ELSE 0) :
         ForwardBodyReturn(body)
    \/ \E fetchError \in ClientFetchErrors : ProcessInvoicesFetchError(fetchError)
    \/ \E c \in Connectivity : ProcessInvoicesFetchCatch(c[1], c[2])
    \/ ProcessInvoicesResponse
    \/ \E read \in ClientBodyReads : ProcessInvoicesAnswer(read)
    \/ ProcessInvoicesResult
    \/ \E s \in DOMAIN runs : QueryExact(s, "none")
    \/ \E s \in DOMAIN runs : QueryScan(s, "none")
    \/ \E s \in DOMAIN runs : QueryFilename(s, "none")
    \/ \E s \in DOMAIN runs, isOnline \in BOOLEAN : CheckNetworkConnectivity(s, isOnline)
    \/ \E s \in DOMAIN runs : UploadPDF(s, "none")
    \/ \E s \in DOMAIN runs, fault \in WriteFaults : SetInvoiceDoc(s, fault)
    \/ \E s \in DOMAIN runs : LoadAllInvoicesFromDB(s)
    \/ \E s \in DOMAIN runs, fault \in WriteFaults : UpdateInvoiceDoc(s, fault)
    \/ ProcessInvoicesDelay
    \/ Tick

ClientSpec == StoreInit /\ [][ClientNext]_vars

\* ======================================== dashboard: concurrent commits
\* Two browser sessions of one user commit at the same time; the steps of
\* their commits interleave.
RaceUser == "u1"
RaceInputs ==
    {x \in Filenames \X Payloads : x[2].invoice_number \in {Undefined, <<"N">>}}

RaceInit == SessionsInit(Sessions)

RaceNext ==
    \/ /\ Started < MaxRaceCommits
       /\ \E s \in DOMAIN runs, x \in RaceInputs :
             ProcessInvoicesCommit(s, RaceUser, x[1], x[2], TRUE)
    \/ \E s \in DOMAIN runs : QueryExact(s, "none")
    \/ \E s \in DOMAIN runs : QueryScan(s, "none")
    \/ \E s \in DOMAIN runs : QueryFilename(s, "none")
    \/ \E s \in DOMAIN runs : CheckNetworkConnectivity(s, TRUE)
    \/ \E s \in DOMAIN runs : UploadPDF(s, "none")
    \/ \E s \in DOMAIN runs : SetInvoiceDoc(s, "none")
    \/ \E s \in DOMAIN runs : LoadAllInvoicesFromDB(s)
    \/ \E s \in DOMAIN runs : UpdateInvoiceDoc(s, "none")
    \/ Tick

RaceSpec == RaceInit /\ [][RaceNext]_vars

\* ============================================ batch route: scheduling
\* The batch route alone, with the scheduling its timers justify: the health
\* probe settles (AbortSignal.timeout(10000), route.ts 309), the fetch of
\* every dispatched batch settles (the abort timer of route.ts 425 is armed
\* until the headers arrive, 441), and the handler runs when it can.  The
\* body read (444, 458) starts after clearTimeout and has no timer.
MaxBatches == (MaxFiles + BATCH_SIZE - 1) \div BATCH_SIZE

BatchInit == Init /\ request.route = "batch"
BatchLiveSpec ==
    /\ BatchInit
    /\ [][BatchNext]_vars
    /\ WF_vars(BatchStart)
    /\ WF_vars(\E o \in ProbeOutcomes : BatchHealthReturn(o))
    /\ \A b \in 1..MaxBatches : WF_vars(\E o \in FetchOutcomes : BatchFetchReturn(b, o))
    /\ WF_vars(WaveSettle)

\* ================================================= the reports of a run
\* A run of the batch route, or a run of the dashboard with the forwarding
\* route that answers its POSTs.
ReportInit == (Init /\ request.route = "batch") \/ StoreInit

ReportNext ==
    \/ BatchNext
    \/ request.route # "batch" /\ ClientNext

ReportSpec == ReportInit /\ [][ReportNext]_vars

\* ================================================================== claims
Last(s) == s[Len(s)]
IsFailure(o) == o # "ok"
BatchRun == request.route = "batch" /\ calls # <<>>
Reported == request.route = "batch" /\ pc = "done" /\ response.status = 200

\* Position in the report before the first outcome of batch b.
RECURSIVE Offset(_)
Offset(b) == IF b <= 1 THEN 0 ELSE Offset(b - 1) + Len(calls[b - 1].value)

WholesaleFailure(b) ==
    /\ calls[b].st = "settled"
    /\ calls[b].value # <<>>
    /\ \A i \in DOMAIN calls[b].value : ~calls[b].value[i].success

WaveNumber(b) == (b - 1) \div MAX_CONCURRENT_BATCHES

\* C1: once the health gate has passed, the batch route ends with the 200
\* report whatever the batch calls did; every batch was dispatched and
\* settled, and the outcomes processBatch returned for it stand unchanged in
\* the report at the batch's place.
C1_FailureIsolation ==
    (BatchRun /\ pc = "done") =>
        /\ response.status = 200
        /\ \A b \in DOMAIN calls :
              /\ calls[b].st = "settled"
              /\ Offset(b) + Len(calls[b].value) <= Len(response.data)
              /\ SubSeq(response.data, Offset(b) + 1, Offset(b) + Len(calls[b].value))
                    = calls[b].value

\* C1 witness: the first batch timed out, its sibling and the batch of the
\* next wave succeeded, and their successes are in the report.
C1_Witness ==
    /\ Reported /\ Len(calls) = 3
    /\ \A i \in DOMAIN calls[1].value : calls[1].value[i].error = "Request timeout"
    /\ WholesaleFailure(1)
    /\ \E i \in DOMAIN response.data :
            response.data[i].batch = 2 /\ response.data[i].success
    /\ \E i \in DOMAIN response.data :
            response.data[i].batch = 3 /\ response.data[i].success

\* C2 (as claimed): the report holds exactly one outcome per input file.
C2_OneOutcomePerFile ==
    Reported =>
        /\ Len(response.data) = Len(request.files)
        /\ \A i \in DOMAIN request.files :
              Cardinality({k \in DOMAIN response.data :
                             response.data[k].filename = request.files[i].name}) = 1

\* C3: the report (and the list collected so far) is in batch schedule order:
\* an outcome of batch i never follows an outcome of a batch j > i.
C3_ScheduleOrder ==
    /\ \A p, q \in DOMAIN results :
          p < q => results[p].batch <= results[q].batch
    /\ \A p, q \in DOMAIN response.data :
          p < q => response.data[p].batch <= response.data[q].batch

\* C3 witness: batch 2 settled before batch 1, and the report holds outcomes
\* of both.
C3_Witness ==
    /\ Reported
    /\ Len(settleLog) >= 2 /\ settleLog[1] = 2 /\ settleLog[2] = 1
    /\ \E p, q \in DOMAIN response.data :
          response.data[p].batch = 1 /\ response.data[q].batch = 2

\* C4: an extraction call of a later wave is issued only when every call of
\* every earlier wave has settled.
C4_WavesSequential ==
    BatchRun =>
        \A b, c \in DOMAIN calls :
            (WaveNumber(b) < WaveNumber(c) /\ calls[c].st # "idle")
                => calls[b].st = "settled"

\* C4 witness: a call of the second wave is in flight after a wholesale
\* failure in the first wave.
C4_Witness ==
    /\ BatchRun /\ Len(calls) = 3
    /\ calls[3].st = "fetching"
    /\ WholesaleFailure(2)

\* C5: at most MAX_CONCURRENT_BATCHES extraction calls are in flight.
C5_BoundedInFlight == Cardinality(InFlight) <= MAX_CONCURRENT_BATCHES

\* C5 witness: two calls in flight while a third batch waits.
C5_Witness ==
    /\ BatchRun
    /\ Cardinality(InFlight) = MAX_CONCURRENT_BATCHES
    /\ \E b \in DOMAIN calls : calls[b].st = "idle"

InvalidFile(f) == f.type # PDF \/ f.size > maxFileSize

\* C6: a submitted set with a file of the wrong type or above the cap never
\* causes a network call, health probe or extraction, and the request ends
\* with the one 400 answer that carries no outcome.
C6_InvalidSetRejected ==
    (request.formOk /\ \E i \in DOMAIN request.files : InvalidFile(request.files[i])) =>
        /\ pc \in {"start", "done"}
        /\ probeLog = <<>> /\ calls = <<>> /\ results = <<>>
        /\ pc = "done" =>
              /\ response.status = 400 /\ ~response.success
              /\ response.data = <<>>

\* C6 witness: a configured batch request whose first two files are valid and
\* whose third is above the cap was refused.
C6_Witness ==
    /\ request.route = "batch" /\ request.configured /\ pc = "done"
    /\ Len(request.files) >= 3
    /\ ~InvalidFile(request.files[1]) /\ ~InvalidFile(request.files[2])
    /\ request.files[3].type = PDF /\ request.files[3].size > maxFileSize
    /\ response.status = 400

\* C7: on every route an extraction call is issued only when the last health
\* probe of the request returned 2xx; a request whose probes all failed ends
\* without any extraction call.
C7_GateBeforeExtraction ==
    /\ Issued # {} => (probeLog # <<>> /\ Last(probeLog) = "ok")
    /\ (probeLog # <<>> /\ IsFailure(Last(probeLog)) /\ pc = "done") =>
            (calls = <<>> /\ response.status = 503)

\* C7 witness: the single route issued its extraction call after one failed
\* and one successful probe.
C7_Witness ==
    /\ request.route = "single" /\ Issued # {}
    /\ Len(probeLog) = 2 /\ IsFailure(probeLog[1])

UnavailableMessage == "Backend service is not accessible after multiple attempts."
ProbesIssued == Len(probeLog) + (IF pc = "health" THEN 1 ELSE 0)

\* The safety part of C8.
HealthLoopInv ==
    request.route = "single" =>
        /\ ProbesIssued <= maxRetries
        /\ \A i \in DOMAIN probeLog : probeLog[i] = "ok" => i = Len(probeLog)
        /\ "ok" \in Range(probeLog) => pc \in {"extract", "done"} /\ Issued # {}
        /\ pc = "sleep" => Len(probeLog) < maxRetries
        /\ (pc \in {"sleep", "health"}) =>
                \A i \in DOMAIN probeLog : IsFailure(probeLog[i])
        /\ (Len(probeLog) = maxRetries /\ \A i \in DOMAIN probeLog : IsFailure(probeLog[i]))
              <=> (pc = "done" /\ response.message = UnavailableMessage)
        /\ retryCount = Cardinality({i \in DOMAIN probeLog : IsFailure(probeLog[i])})

\* C8: the health loop of the single route issues at most maxRetries probes,
\* stops at the first 2xx probe, sleeps only while attempts remain, reports
\* Unavailable exactly when maxRetries probes failed, and always terminates.
C8_HealthLoop ==
    /\ []HealthLoopInv
    /\ (pc \in {"health", "sleep"}) ~> (pc \in {"extract", "done"})

\* C8 witness: the loop ended Unavailable after maxRetries failed probes of
\* all three kinds.
C8_Witness ==
    /\ request.route = "single" /\ pc = "done"
    /\ response.message = UnavailableMessage
    /\ probeLog = <<"timeout", "non2xx", "neterr">>

\* Every record a commit has stored is listed in the log: no commit waits
\* for the refresh of the dashboard's list.
Listed == \A s \in DOMAIN runs : runs[s].pc # "refresh"

\* The events of the calls whose storage access returns in a step: the one
\* the step logs, or the one a commit keeps while the list is refreshed.
ReturnedNow ==
    {runs'[s].result[1] :
        s \in {x \in DOMAIN runs : runs[x].pc # "refresh" /\ runs'[x].pc = "refresh"}}
    \cup {history'[i] :
            i \in {j \in DOMAIN history' :
                      /\ j > Len(history)
                      /\ \A s \in DOMAIN runs :
                            runs[s].pc = "refresh" => runs'[s].pc = "refresh"}}

SameInvoice(e1, e2) == e1.owner = e2.owner /\ e1.data = e2.data

\* Events i..k of the commit log are commits of one extracted invoice by one
\* owner with a non-blank document number.
IsRun(i, k) ==
    /\ 1 <= i /\ i < k /\ k <= Len(history)
    /\ NonBlank(history[i].data.invoice_number)
    /\ \A j \in i..k : SameInvoice(history[i], history[j])

RecordsFor(owner, number) ==
    {r \in store : r.userId = owner /\ r.invoiceNumber = number}

\* C9: in a run of two or more consecutive commits of one extracted invoice by
\* one owner with a non-blank document number, a first commit into storage
\* without any record reports created, every later commit reports updated and
\* writes the same record, and after the run storage holds exactly one record
\* of that owner and number, with the createdAt the first commit left and the
\* updatedAt of the last commit.
C9_RepeatedCommit ==
    /\ history # <<>> => history[1].outcome = "created"
                         /\ history[1].createdAt = history[1].at
    /\ \A i, k \in DOMAIN history :
          IsRun(i, k) =>
              /\ history[k].outcome = "updated"
              /\ history[k].id = history[i].id
              /\ history[k].createdAt = history[i].createdAt
    /\ \A i \in DOMAIN history :
          (Listed /\ IsRun(i, Len(history))) =>
              /\ Cardinality(RecordsFor(history[i].owner,
                                        history[i].data.invoice_number)) = 1
              /\ \A r \in RecordsFor(history[i].owner, history[i].data.invoice_number) :
                    /\ r.id = history[i].id
                    /\ r.createdAt = history[i].createdAt
                    /\ r.updatedAt = history[Len(history)].at

\* C9 witness: two commits of one invoice by the dashboard at different times
\* left one record, created at the first and updated at the second.
C9_Witness ==
    /\ Listed /\ Len(history) = 2 /\ IsRun(1, 2)
    /\ history[1].call = "commit" /\ history[2].call = "commit"
    /\ history[1].at < history[2].at
    /\ history[1].outcome = "created" /\ history[2].outcome = "updated"
    /\ \E r \in store : /\ store = {r}
                        /\ r.createdAt = history[1].at
                        /\ r.updatedAt = history[2].at
                        /\ r.createdAt < r.updatedAt

\* A record of the owner whose document number equals the queried one exactly
\* or after trimming and case folding.
MatchesNumber(r, owner, number) ==
    /\ r.userId = owner
    /\ IsDefined(r.invoiceNumber) /\ r.invoiceNumber # <<>>
    /\ Trim(ToLowerCase(r.invoiceNumber)) = Trim(ToLowerCase(number))
MatchesFilename(r, owner, filename) ==
    r.userId = owner /\ r.originalFilename = filename

\* C10: for every stored state and every query, findExistingInvoice returns a
\* record matching the document number whenever the number is non-blank and
\* such a record exists, even if another record matches the filename; it
\* returns a filename match only when the number is blank, absent or matches
\* nothing; and it returns null exactly when nothing matches.
C10_LookupPriority ==
    \A u \in Owners, f \in Filenames, n \in InvoiceNumbers :
        LET found == FindExistingInvoice(store, u, f, n)
            byNumber == IF NonBlank(n)
                        THEN {r \in store : MatchesNumber(r, u, n)} ELSE {}
            byFilename == {r \in store : MatchesFilename(r, u, f)}
        IN  /\ byNumber # {} => (found # {} /\ found \subseteq byNumber)
            /\ byNumber = {} => found = byFilename
            /\ (byNumber = {} /\ byFilename = {}) <=> found = {}

\* C10 witness: the owner has one record matching the queried number and a
\* different record matching the queried filename, and the lookup returns the
\* former.
C10_Witness ==
    \E u \in Owners, f \in Filenames, n \in InvoiceNumbers :
        \E r1, r2 \in store :
            /\ r1 # r2 /\ NonBlank(n)
            /\ MatchesNumber(r1, u, n) /\ ~MatchesFilename(r1, u, f)
            /\ MatchesFilename(r2, u, f) /\ ~MatchesNumber(r2, u, n)
            /\ FindExistingInvoice(store, u, f, n) = {r1}

\* The stored number and the queried one are equal after trimming and case
\* folding.
FoldedEqual(stored, queried) ==
    /\ IsDefined(stored) /\ IsDefined(queried)
    /\ Trim(ToLowerCase(stored)) = Trim(ToLowerCase(queried))

\* C11 (as claimed): whenever a record of the owner has the queried document
\* number up to trimming and case, findExistingInvoice returns a record with
\* that number, whatever the filename and whatever the number.
C11_FoldedMatchAnyNumber ==
    \A u \in Owners, f \in Filenames, n \in InvoiceNumbers :
        (\E r \in store : r.userId = u /\ FoldedEqual(r.invoiceNumber, n)) =>
            LET found == FindExistingInvoice(store, u, f, n)
            IN  /\ found # {}
                /\ \A x \in found : x.userId = u /\ FoldedEqual(x.invoiceNumber, n)

\* C11 (amended): the same for every queried document number that is not
\* blank.
C11_FoldedMatch ==
    \A u \in Owners, f \in Filenames, n \in InvoiceNumbers :
        (NonBlank(n) /\ \E r \in store : r.userId = u /\ FoldedEqual(r.invoiceNumber, n)) =>
            LET found == FindExistingInvoice(store, u, f, n)
            IN  /\ found # {}
                /\ \A x \in found : x.userId = u /\ FoldedEqual(x.invoiceNumber, n)

\* C11 witness: the only record with the queried number has it in another
\* case and spacing, another record has the queried filename, and the lookup
\* returns the former.
C11_Witness ==
    \E u \in Owners, f \in Filenames, n \in InvoiceNumbers :
        \E r1, r2 \in store :
            /\ NonBlank(n) /\ r1 # r2
            /\ ExactMatches(store, u, n) = {}
            /\ r1.userId = u /\ FoldedEqual(r1.invoiceNumber, n)
            /\ r1.originalFilename # f
            /\ MatchesFilename(r2, u, f) /\ ~FoldedEqual(r2.invoiceNumber, n)
            /\ FindExistingInvoice(store, u, f, n) = {r1}

\* C12: when the queried document number is absent, blank or matched by no
\* record of the owner, and a record of the owner has exactly the queried
\* original filename, findExistingInvoice returns a record with that filename.
C12_FilenameFallback ==
    \A u \in Owners, f \in Filenames, n \in InvoiceNumbers :
        ( /\ ~NonBlank(n) \/ ~\E r \in store : MatchesNumber(r, u, n)
          /\ \E r \in store : MatchesFilename(r, u, f) ) =>
            LET found == FindExistingInvoice(store, u, f, n)
            IN  /\ found # {}
                /\ \A x \in found : MatchesFilename(x, u, f)

\* C12 witness: the queried number is non-blank and matches nothing, one
\* record has the queried filename, another record of the owner has the same
\* sanitized filename but not the same original one, and the lookup returns
\* the first.
C12_Witness ==
    \E u \in Owners, f \in Filenames, n \in InvoiceNumbers :
        \E r1, r2 \in store :
            /\ NonBlank(n) /\ ~\E r \in store : MatchesNumber(r, u, n)
            /\ MatchesFilename(r1, u, f)
            /\ r2.userId = u /\ r2.originalFilename # f
            /\ r2.filename = CleanFilename(f)
            /\ FindExistingInvoice(store, u, f, n) = {r1}

\* C13: an error raised at any step of the lookup (store not initialised,
\* exact query, scan, filename query) makes findExistingInvoice return null:
\* saveInvoiceData then takes the create branch even when a matching record
\* is stored; it reports created under a freshly generated id, or fails in
\* its own write, and never reports updated.  The id is generated when the
\* lookup returns, at or before the time the call returns.
C13_LookupErrorSwallowed ==
    \A i \in DOMAIN history :
        history[i].raised =>
            /\ history[i].call = "save"
            /\ history[i].outcome \in {"created", "failed"}
            /\ history[i].outcome = "failed" =>
                    history[i].message[2] \in {NotInitialized} \cup (WriteFaults \ {"none"})
            /\ \E t \in 1..history[i].at :
                  history[i].id = GenerateDocumentId(history[i].owner,
                                                     history[i].filename, t)
            /\ history[i].outcome = "created" =>
                  history[i].createdAt \in 1..history[i].at

\* C13 witness: the scan of a lookup failed while a record with the number in
\* another case was stored, and the commit created a second record with the
\* number.
C13_Witness ==
    /\ Len(history) = 2
    /\ history[2].raised /\ history[2].matched /\ history[2].outcome = "created"
    /\ \E r1, r2 \in store :
          /\ r1.id = history[1].id /\ r2.id = history[2].id /\ r1 # r2
          /\ r1.invoiceNumber # r2.invoiceNumber
          /\ FoldedEqual(r1.invoiceNumber, r2.invoiceNumber)

\* C14 (as claimed): a normalizer applied to its own result returns it
\* unchanged, for standardizeVendorName and for enhancedVendorNormalization.
C14_Idempotent ==
    Len(output) = 2 => output[2].value = output[1].value

\* The characters that are neither letters nor digits.
IsNoise(str) ==
    \A i \in DOMAIN str : str[i] \notin UpperCase \cup LowerCase \cup Digits \cup {"fwA"}

\* C15 (as claimed): standardizeVendorName returns the empty string for
\* every input without a letter and without a digit.
C15_NoiseToEmpty ==
    (IsDefined(input) /\ IsNoise(input) /\ output # <<>>
        /\ output[1].fn = "standardizeVendorName") => output[1].value = <<>>

\* The canonical value of an entity of the override table and its spellings.
Canonicals == {normalizationRules[k][2] : k \in DOMAIN normalizationRules}
Variants(canonical) ==
    {canonical} \cup {normalizationRules[k][1] :
                        k \in {j \in DOMAIN normalizationRules :
                                 normalizationRules[j][2] = canonical}}
FirstRule(value) ==
    LET hits == {k \in DOMAIN normalizationRules : normalizationRules[k][1] = value}
    IN  IF hits = {} THEN 0 ELSE CHOOSE k \in hits : \A j \in hits : k <= j

\* C16: enhancedVendorNormalization maps every spelling of an entity of the
\* override table to the entity's canonical value, so any two spellings of
\* one entity get the same value; and its result is the generic result,
\* replaced once by the canonical of the first rule it equals, if any.
C16_VariantsCollapse ==
    (output # <<>> /\ output[1].fn = "enhancedVendorNormalization") =>
        /\ \A c \in Canonicals : input \in Variants(c) => output[1].value = c
        /\ (IsDefined(input) /\ Trim(input) # <<>>) =>
              LET generic == StandardizeVendorName(Trim(input))
              IN  output[1].value =
                    IF FirstRule(generic) = 0 THEN generic
                    ELSE normalizationRules[FirstRule(generic)][2]

\* C16 witness: a spelling that the generic algorithm leaves different from
\* the canonical value was replaced by the override pass.
C16_Witness ==
    /\ Len(output) = 2 /\ output[1].fn = "enhancedVendorNormalization"
    /\ \E c \in Canonicals :
          /\ input \in Variants(c)
          /\ StandardizeVendorName(input) # c
          /\ output[1].value = c /\ output[2].value = c

\* C17 (as claimed): the vendorName of every stored record is the
\* normalizer's output, generic algorithm and override table, for the vendor
\* company name of the record's payload.
C17_VendorNameNormalized ==
    \A r \in store :
        r.vendorName = EnhancedVendorNormalization(r.extractedData.company_name)

\* C19: a commit whose write fails returns a failed outcome whose message
\* carries the reason of the storage layer, and it leaves the stored records
\* as they were; a commit that does not fail changes at most the one record
\* it reports.
C19_WriteFailureIsolated ==
    [][\A e \in ReturnedNow :
            /\ e.outcome = "failed" =>
                  /\ store' = store
                  /\ Len(e.message) = 2
                  /\ e.message[2] \in (WriteFaults \ {"none"})
                        \cup {NotInitialized, "upload", "Firebase Storage not initialized"}
            /\ e.outcome # "failed" =>
                  \A r \in store : r.id # e.id => r \in store']_vars

\* C19 witness: after a commit that stored a record, a commit failed in its
\* write with permission-denied, and the record of the first is still stored.
C19_Witness ==
    /\ Len(history) = 2
    /\ history[1].outcome = "created" /\ history[2].outcome = "failed"
    /\ history[2].message[2] = "permission-denied"
    /\ \E r \in store : r.id = history[1].id /\ r.updatedAt = history[1].at
                        /\ r.extractedData.invoice_number = history[1].data.invoice_number

\* The errors of a run that belong to its preconditions: no file selected,
\* no connection at the start, a backend that is not configured, a request
\* the server rejects as invalid.
PreconditionFailed ==
    \/ client.toast \in {"select-files", "offline"}
    \/ client.error = ResponseErrorMessage(NotConfigured)
    \/ client.error \in {ResponseErrorMessage(ErrorResponse(400, m)) :
                            m \in {"No files provided", "Only PDF files are supported",
                                   "File exceeds 5MB limit"}}

\* The file at position i of the selection has been reported: committed, or
\* shown as an extraction error.
ReportedFile(i) ==
    \E j \in DOMAIN client.outcomes : client.outcomes[j].filename = client.files[i]

\* The batch of the selection that the file at position i belongs to.
BatchIndexOf(i) == (i - 1) \div CLIENT_BATCH_SIZE

\* C18 (as claimed): when a run of the dashboard has ended and none of its
\* preconditions failed, every file was reported if nothing was thrown, and
\* an error thrown in one batch has left every file of every other batch
\* processed and reported.
C18_LocalErrorsContained ==
    (client.pc = "ended" /\ ~PreconditionFailed) =>
        \A i \in DOMAIN client.files :
            (client.toast # "failed" \/ BatchIndexOf(i) # client.batchIndex)
                => ReportedFile(i)

\* C20 (as claimed): every commit reports updated exactly when its write
\* modified a document that was stored and created exactly when it added one,
\* so the number of commits reported created equals the number of stored
\* records, also when the commits of two sessions interleave.
C20_IsUpdateExact ==
    /\ \A i \in DOMAIN history :
          (history[i].outcome = "created") <=> history[i].added
    /\ Listed =>
          Cardinality({i \in DOMAIN history : history[i].outcome = "created"})
              = Cardinality(store)

\* A commit that reported created wrote over the record that another session
\* had stored since the lookup the report is based on.
StaleLookupOverwrite ==
    \E i \in DOMAIN history :
        /\ history[i].outcome = "created" /\ ~history[i].added
        /\ history[i].id # GenerateDocumentId(history[i].owner, history[i].filename,
                                              history[i].at)
        /\ \E j \in 1..(i - 1) : history[j].session # history[i].session
                                 /\ history[j].id = history[i].id

\* C21: the write of saveInvoiceData follows the answer of its earlier lookup
\* and not the store it reaches: a session whose lookup returned no match
\* writes a record with a new creation time under the id it generated, also
\* when another session has stored a record with the same owner and document
\* number since the lookup.
C21_WriteFollowsStaleLookup ==
    [][\A s \in Sessions :
          (runs[s].pc = "write" /\ runs[s].existing = {} /\ runs'[s].pc # "write") =>
              /\ ReturnedNow # {}
              /\ \A e \in ReturnedNow : e.id = runs[s].id
              /\ runs[s].id = GenerateDocumentId(RaceUser, runs[s].filename, runs[s].id[3])
              /\ \E r \in store' :
                    /\ r.id = runs[s].id /\ r.userId = RaceUser
                    /\ r.invoiceNumber = runs[s].data.invoice_number
                    /\ r.createdAt = now]_vars

\* C21 witness: two sessions committed the document number N, both lookups
\* found nothing and both created; two different records of the owner with
\* the number N are stored.
C21_Witness ==
    /\ Len(history) = 2
    /\ history[1].session # history[2].session
    /\ \A i \in 1..2 : history[i].outcome = "created" /\ history[i].added
                       /\ history[i].data.invoice_number = <<"N">>
    /\ \E r1, r2 \in store :
          /\ r1.id = history[1].id /\ r2.id = history[2].id /\ r1.id # r2.id
          /\ r1.userId = r2.userId
          /\ r1.invoiceNumber = <<"N">> /\ r2.invoiceNumber = <<"N">>

\* What happened in a run of the batch route: no extraction call was issued,
\* or every file has a successful outcome and no failed one, or not.
BatchFileSucceeded(outcomes, name) ==
    /\ \E j \in DOMAIN outcomes : outcomes[j].filename = name /\ outcomes[j].success
    /\ \A j \in DOMAIN outcomes : outcomes[j].filename = name => outcomes[j].success
BatchSituation ==
    IF Issued = {} THEN "nothing"
    ELSE IF \A i \in DOMAIN request.files :
               BatchFileSucceeded(Flatten([b \in DOMAIN calls |-> calls[b].value]),
                                  request.files[i].name)
    THEN "all" ELSE "some"

\* What the caller of the batch route reads from the response and the files
\* it sent.
BatchReading ==
    IF response.status # 200 THEN "nothing"
    ELSE IF /\ response.stats.failedFiles = 0
            /\ \A i \in DOMAIN request.files :
                  BatchFileSucceeded(response.data, request.files[i].name)
    THEN "all" ELSE "some"

\* What happened in a run of the dashboard: the forwarding route issued no
\* extraction call for any of its POSTs, or every selected file was committed,
\* or not.  A call of the request at hand is in calls, a call of an earlier
\* request of the run has settled.
Committed(i) ==
    \E j \in DOMAIN client.outcomes :
        /\ client.outcomes[j].filename = client.files[i]
        /\ client.outcomes[j].status \in {"created", "updated"}
ExtractionIssued == calls # <<>> \/ settleLog # <<>>
ClientSituation ==
    IF ~ExtractionIssued THEN "nothing"
    ELSE IF \A i \in DOMAIN client.files : Committed(i) THEN "all"
    ELSE "some"

\* The messages of the errors thrown for what precedes the extraction call of
\* the first batch: no connection before the POST, the answer of a route that
\* is not configured, the answer of a route whose health probe failed (503
\* with retryAfter: 30; a 503 passed on from the extraction service has no
\* retryAfter).
PreconditionMessages ==
    {ConnectionLost(1),
     ResponseErrorMessage(NotConfigured),
     ResponseErrorMessage([ErrorResponse(503, "") EXCEPT !.retryAfter = 30])}

\* What the user of the dashboard reads from the toasts: the final toast, the
\* message of the error, the batch the progress toast announced last, and the
\* toast of each file.
ClientReading ==
    IF client.toast \in {"select-files", "offline"} THEN "nothing"
    ELSE IF /\ client.toast = "failed" /\ client.batchIndex = 0
            /\ client.error \in PreconditionMessages
    THEN "nothing"
    ELSE IF client.toast = "complete" /\ \A i \in DOMAIN client.files : Committed(i)
    THEN "all" ELSE "some"

\* The forwarding route has returned from every request of the dashboard.
RouteQuiet == request.route = "forward" => pc = "done"

\* C22 (as claimed): what a finished run returns tells the three situations
\* apart: the response of the batch route, read with the files sent, and the
\* toasts of the dashboard, read with the files selected, each determine
\* whether nothing was attempted, some files failed, or all files succeeded.
C22_SituationsDistinct ==
    /\ (request.route = "batch" /\ pc = "done") => BatchReading = BatchSituation
    /\ (client.pc = "ended" /\ RouteQuiet) => ClientReading = ClientSituation

\* The toast of a POST that was rejected (page.tsx 1446-1466), or of an
\* answer that was not ok and whose body could not be read (1472-1475).
TransportError ==
    /\ client.toast = "failed"
    /\ Includes(client.error, "during batch") \/ client.error = ServerUnavailable

\* Every run of the dashboard that did not end with one of these toasts is
\* read as the situation it is in.
SituationsDistinctButTransport ==
    (client.pc = "ended" /\ RouteQuiet /\ ~TransportError)
        => ClientReading = ClientSituation

\* Two runs of the dashboard over the one file a that end with the same
\* toasts, the error of a POST that was rejected in the first batch: in one
\* the route was not configured and issued no extraction call, in the other
\* it had issued the call.
TransportErrorShown ==
    /\ client.pc = "ended" /\ RouteQuiet
    /\ client = [Thrown(IdleClient, "Network error detected during batch 1."
                                        \o CheckConnection \o Preserved)
                    EXCEPT !.files = << <<"a">> >>]
ShownWithoutCall ==
    TransportErrorShown /\ response = NotConfigured /\ ~ExtractionIssued
ShownAfterCall ==
    TransportErrorShown /\ response.status = 200 /\ ExtractionIssued

\* Two runs over the one file a that end with the same toasts, the error of
\* an answer whose body could not be read: in one the answer is the 503 of
\* the route's failed health probe, in the other the 502 the extraction
\* service gave to the call.
UnreadAnswerShown ==
    /\ client.pc = "ended" /\ RouteQuiet
    /\ client = [Thrown(IdleClient, ServerUnavailable) EXCEPT !.files = << <<"a">> >>]
UnreadWithoutCall == UnreadAnswerShown /\ response.status = 503 /\ ~ExtractionIssued
UnreadAfterCall == UnreadAnswerShown /\ response.status = 502 /\ ExtractionIssued

\* The reasons the extraction service gives itself for a file; every other
\* reason of an outcome was written by processBatch for a call that failed as
\* a whole.
ServiceReasons == {"", "extraction failed"}

\* C23 (as claimed): the value of a processBatch call that failed as a whole
\* is exactly one failure per file of its batch, in the order of the files,
\* each with the name of the file and the reason of the failure.
C23_WholesaleFailure ==
    request.route = "batch" =>
        \A b \in DOMAIN calls :
            calls[b].st = "settled" =>
                \A i \in DOMAIN calls[b].value :
                    calls[b].value[i].error \notin ServiceReasons =>
                        calls[b].value = FailAll(Batch(request.files, b), b,
                                                 calls[b].value[i].error)

\* C24 (as claimed): every run of the batch route eventually returns its
\* response, whatever the extraction service does.
C24_RunReturns == <>(pc = "done")

\* C25: within a request an extraction call, once issued, is never issued
\* again: a call that has left its fetch never returns to it, whatever status
\* it got, the list of calls of the request is fixed once calls exist, and
\* the single and the forwarding route have at most one call.
C25_SubmittedOnce ==
    [][/\ \A b \in DOMAIN calls :
             calls[b].st # "idle" =>
                 /\ b \in DOMAIN calls'
                 /\ calls'[b].st # "idle"
                 /\ calls'[b].st = "fetching" => calls[b].st = "fetching"
                 /\ calls[b].st = "settled" => calls'[b] = calls[b]
       /\ calls # <<>> => DOMAIN calls' = DOMAIN calls
       /\ request.route \in {"single", "forward"} => Len(calls') <= 1]_vars

\* C25 witness: a run of the batch route with two waves has returned; a batch
\* of the first wave was answered 502 and settled once.
C25_Witness ==
    /\ request.route = "batch" /\ pc = "done" /\ Len(calls) = 3
    /\ calls[1].st = "settled" /\ calls[1].status = 502
    /\ Cardinality({i \in DOMAIN settleLog : settleLog[i] = 1}) = 1
    /\ \A b \in DOMAIN calls : calls[b].st = "settled"

\* What saveInvoiceData returns to its caller besides the id: success or
\* failure, created or updated, and the message.
Returned(e) == <<e.outcome, e.message>>

\* C26 (as claimed): a commit whose lookup swallowed an error returns
\* something else than a commit whose lookup completed and found no matching
\* record, so that the caller can tell the best-effort answer apart.
C26_FailedLookupFlagged ==
    \A i, j \in DOMAIN history :
        (history[i].raised /\ ~history[j].raised /\ ~history[j].matched)
            => Returned(history[i]) # Returned(history[j])

\* C27 (as claimed): whichever path a commit of processInvoices takes, the
\* record it wrote holds the payload with the vendor name normalized, the
\* same for a record it created and for a record it updated.
C27_NamesNormalizedOnEveryPath ==
    [][\A e \in ReturnedNow :
          (e.call = "commit" /\ e.outcome \in {"created", "updated"}) =>
              \A r \in store' :
                  r.id = e.id =>
                      r.extractedData.company_name
                          = NormalizedExtractedData(e.data).company_name]_vars

\* C28 (as claimed): a commit that creates writes under an id no stored
\* record has, and the store grows by exactly one record, also when an
\* earlier create of the same sanitized filename ran at the same clock value.
C28_CreateAddsOneRecord ==
    [][\A e \in ReturnedNow :
          e.outcome = "created" =>
              /\ e.id \notin {r.id : r \in store}
              /\ Cardinality(store') = Cardinality(store) + 1]_vars

\* Two document numbers that are non-blank and equal after trimming and case
\* folding.
SameNumber(m, n) ==
    /\ NonBlank(m) /\ NonBlank(n)
    /\ Trim(ToLowerCase(m)) = Trim(ToLowerCase(n))

\* C29: after any sequence of commits run one at a time without storage
\* errors, no two stored records of one owner have document numbers that are
\* non-blank and equal after trimming and case folding, also after a commit
\* that matched its record through the filename and changed its number.
C29_NumbersUniquePerOwner ==
    \A r1, r2 \in store :
        (r1.userId = r2.userId /\ SameNumber(r1.invoiceNumber, r2.invoiceNumber))
            => r1 = r2

\* C29 witness: the owner has two records, of the files a and A; a third
\* commit carried for the file a a number that neither record had, found
\* nothing by number, matched the record of its file through the filename and
\* gave it the number.  Both records now carry a non-blank number.
C29_Witness ==
    /\ Len(history) = 3
    /\ history[1].outcome = "created" /\ history[2].outcome = "created"
    /\ history[1].id # history[2].id
    /\ history[3].outcome = "updated"
    /\ history[3].id = history[1].id
    /\ history[3].filename = history[1].filename
    /\ NonBlank(history[2].data.invoice_number)
    /\ NonBlank(history[3].data.invoice_number)
    /\ ~SameNumber(history[1].data.invoice_number, history[3].data.invoice_number)
    /\ ~SameNumber(history[2].data.invoice_number, history[3].data.invoice_number)
    /\ \E r1, r2 \in store :
          /\ store = {r1, r2} /\ r1 # r2 /\ r1.userId = r2.userId
          /\ r1.id = history[3].id /\ r2.id = history[2].id
          /\ r1.invoiceNumber = history[3].data.invoice_number
          /\ r2.invoiceNumber = history[2].data.invoice_number

\* The records of the store that belong to other owners than userId.
OthersRecords(st, userId) == {r \in st : r.userId # userId}

\* C30: findExistingInvoice for an owner returns only records of that owner,
\* and a commit by an owner (saveInvoiceData, or the dashboard's commit of a
\* result) leaves the records of every other owner as they were: none is
\* created, modified, removed or given to another owner, also when the owners
\* share document numbers and filenames.
C30_OwnerIsolation ==
    [][\A e \in ReturnedNow :
          e.call \in {"save", "commit"} =>
              /\ \A u \in Owners, f \in Filenames, n \in InvoiceNumbers :
                    \A r \in FindExistingInvoice(store, u, f, n)
                             \cup FindExistingInvoice(store', u, f, n) : r.userId = u
              /\ OthersRecords(store', e.owner) = OthersRecords(store, e.owner)
              /\ \A r \in store' : r.id = e.id => r.userId = e.owner]_vars

\* C30 witness: an owner committed an invoice whose filename and number
\* another owner's record already had; a second record was created and the
\* other owner's record is still there.
C30_Witness ==
    /\ Len(history) >= 2
    /\ history[Len(history)].owner = "u2"
    /\ history[Len(history)].outcome = "created"
    /\ \E r1, r2 \in store :
          /\ r1.userId = "u1" /\ r2.userId = "u2"
          /\ r2.id = history[Len(history)].id
          /\ r1.originalFilename = r2.originalFilename
          /\ NonBlank(r1.invoiceNumber)
          /\ r1.invoiceNumber = r2.invoiceNumber
====
